---- MODULE Spec2Model ----
(***************************************************************************)
(* Aureon: the treasury cash-position / fund-reservation store, the         *)
(* liquidity oracle, the journal store, the balance engine, the loan       *)
(* store with its disbursements, repayments and repayment schedule, the    *)
(* three payment providers and the construction of postings, as state      *)
(* machines over the rows the providers commit.                            *)
(*                                                                         *)
(* Balances and reservation amounts are Python floats (IEEE-754 binary64), *)
(* requested amounts are Decimals with two places.  A float is modelled by *)
(* its exact value: the pair <<h, l>> stands for (h * Base + l) / 2^Frac,  *)
(* 0 <= l < Base.  Every amount of the model is at least 0.01 >= 2^-7, so  *)
(* every binary64 value the program can compute here is a multiple of      *)
(* 2^-(MantBits+6) and the pair holds it exactly; FAdd and FSub round      *)
(* to MantBits significant bits, ties to even, as the hardware does.       *)
(* For example 0.04 is <<21474836, 515396076>>, 0.01 is                    *)
(* <<5368709, 128849019>> and 0.04 - 0.01 is <<16106127, 386547056>>,      *)
(* the float Python prints as 0.03.                                        *)
(*                                                                         *)
(* The loan tables compute with floats of any magnitude; there a float is  *)
(* a sign, a significand of MantBits bits and an exponent (see "binary64,  *)
(* every exponent").  Notes are held as the sequence of their lines; the   *)
(* length limits of the text columns are not modelled.                     *)
(***************************************************************************)
EXTENDS Integers, Sequences, FiniteSets, TLC

\* ------------------------------------------------------------------ bounds
MaxRes == 2
MaxJournals == 3
MaxLoans == 2
MaxIntents == 2
MaxPayments == 1
MaxNotes == 3
MaxTerm == 3
MaxAccounts == 2
MaxVersion == 3
MaxTransfers == 2

\* ---------------------------------------------------------------- binary64
MantBits == 53
Frac == MantBits + 6
Base == 2^30

RECURSIVE BitLen(_)
BitLen(k) == IF k = 0 THEN 0 ELSE 1 + BitLen(k \div 2)

Norm(h, l) == <<h + (l \div Base), l % Base>>

Zero == <<0, 0>>
XAdd(x, y) == Norm(x[1] + y[1], x[2] + y[2])
XNeg(x) == Norm(-x[1], -x[2])
XSub(x, y) == Norm(x[1] - y[1], x[2] - y[2])
XLt(x, y) == x[1] < y[1] \/ (x[1] = y[1] /\ x[2] < y[2])
XBits(x) == IF x[1] > 0 THEN 30 + BitLen(x[1]) ELSE BitLen(x[2])

\* Round a non-negative exact value x plus a tail of num/den of one unit
\* (0 <= num < den) to MantBits significant bits, ties to even.
RoundMag(x, num, den) ==
    LET n == XBits(x)
        s == n - MantBits
        step == 2^s
        rem == x[2] % step
        q == x[2] \div step
        half == step \div 2
        up == IF s = 0
              THEN 2 * num > den \/ (2 * num = den /\ q % 2 = 1)
              ELSE \/ rem > half
                   \/ rem = half /\ num > 0
                   \/ rem = half /\ num = 0 /\ q % 2 = 1
    IN  IF n < MantBits THEN x
        ELSE Norm(x[1], x[2] - rem + (IF up THEN step ELSE 0))

Round(x) == IF x[1] < 0 THEN XNeg(RoundMag(XNeg(x), 0, 1)) ELSE RoundMag(x, 0, 1)

\* float + float and float - float
FAdd(x, y) == Round(XAdd(x, y))
FSub(x, y) == Round(XSub(x, y))

\* Decimal c/100 on the grid: <<floor(c * 2^Frac / 100), remainder>>, by long
\* division of c * 2^Frac in three digits of 19 + 20 + 20 = Frac bits.
DecQuot(c) ==
    LET n1 == c * 2^(Frac - 40)
        q1 == n1 \div 100
        n2 == (n1 % 100) * 2^20
        q2 == n2 \div 100
        n3 == (n2 % 100) * 2^20
        q3 == n3 \div 100
    IN  <<Norm(q1 * 2^10 + (q2 \div 2^10), (q2 % 2^10) * 2^20 + q3), n3 % 100>>

\* float(Decimal(c) / 100): the nearest binary64, ties to even.
ToFloat(c) == RoundMag(DecQuot(c)[1], DecQuot(c)[2], 100)

\* float < Decimal, compared exactly as Python compares them.
FltLtDec(x, c) ==
    \/ XLt(x, DecQuot(c)[1])
    \/ x = DecQuot(c)[1] /\ DecQuot(c)[2] > 0

\* ------------------------------------------------- binary64, every exponent
\* The loan tables hold floats of any magnitude (a monthly rate, a power of
\* 1 + rate, a payment), so there a float is the record
\* [s |-> sign, m |-> significand, e |-> exponent] standing for
\* s * m * 2^e, with m a natural number of exactly MantBits bits held as a
\* sequence of digits of DigitBits bits (four digits hold a significand),
\* least significant first (FltZero
\* has no digit).  Every operation computes the exact result and rounds it
\* once, ties to even, as the hardware and the C library do; the exponent
\* range of binary64 is never approached by the amounts of the model.
DigitBits == (MantBits + 7) \div 4
Digit == 2^DigitBits

RECURSIVE NTrim(_)
NTrim(a) == IF Len(a) > 0 /\ a[Len(a)] = 0 THEN NTrim(SubSeq(a, 1, Len(a) - 1)) ELSE a

RECURSIVE Nat2(_)
Nat2(k) == IF k = 0 THEN <<>> ELSE <<k % Digit>> \o Nat2(k \div Digit)

NDigit(a, i) == IF i <= Len(a) THEN a[i] ELSE 0

RECURSIVE NAddFrom(_, _, _, _)
NAddFrom(a, b, i, c) ==
    IF i > Len(a) /\ i > Len(b)
    THEN IF c = 0 THEN <<>> ELSE <<c>>
    ELSE LET s == NDigit(a, i) + NDigit(b, i) + c
         IN  <<s % Digit>> \o NAddFrom(a, b, i + 1, s \div Digit)

NAdd(a, b) == NAddFrom(a, b, 1, 0)

RECURSIVE NSubFrom(_, _, _, _)
NSubFrom(a, b, i, c) ==
    IF i > Len(a) THEN <<>>
    ELSE LET d == a[i] - NDigit(b, i) - c
         IN  <<d % Digit>> \o NSubFrom(a, b, i + 1, IF d < 0 THEN 1 ELSE 0)

\* a - b for a >= b
NSub(a, b) == NTrim(NSubFrom(a, b, 1, 0))

RECURSIVE NLtFrom(_, _, _)
NLtFrom(a, b, i) ==
    IF i = 0 THEN FALSE
    ELSE IF a[i] # b[i] THEN a[i] < b[i] ELSE NLtFrom(a, b, i - 1)

NLt(a, b) ==
    IF Len(a) # Len(b) THEN Len(a) < Len(b) ELSE NLtFrom(a, b, Len(a))

RECURSIVE NMulDigit(_, _, _, _)
NMulDigit(a, d, i, c) ==
    IF i > Len(a) THEN IF c = 0 THEN <<>> ELSE <<c>>
    ELSE LET p == a[i] * d + c
         IN  <<p % Digit>> \o NMulDigit(a, d, i + 1, p \div Digit)

RECURSIVE NMulFrom(_, _, _)
NMulFrom(a, b, j) ==
    IF j > Len(b) THEN <<>>
    ELSE NAdd(NMulDigit(a, b[j], 1, 0), <<0>> \o NMulFrom(a, b, j + 1))

NMul(a, b) == NTrim(NMulFrom(a, b, 1))

RECURSIVE NPow(_, _)
NPow(a, n) == IF n = 0 THEN <<1>> ELSE NMul(a, NPow(a, n - 1))

NBits(a) == IF a = <<>> THEN 0 ELSE DigitBits * (Len(a) - 1) + BitLen(a[Len(a)])

\* a * 2^k and floor(a / 2^k)
NShl(a, k) ==
    IF a = <<>> THEN a
    ELSE [i \in 1..(k \div DigitBits) |-> 0] \o NMulDigit(a, 2^(k % DigitBits), 1, 0)

NShr(a, k) ==
    LET drop == k \div DigitBits
        s == k % DigitBits
        n == Len(a) - drop
    IN  IF n <= 0 THEN <<>>
        ELSE NTrim([i \in 1..n |->
                 (a[i + drop] \div 2^s)
                 + (NDigit(a, i + drop + 1) % 2^s) * 2^(DigitBits - s)])

NBit(a, i) == (NDigit(a, ((i - 1) \div DigitBits) + 1) \div 2^((i - 1) % DigitBits)) % 2

\* the largest digit d with b * d <= a, for a < b * Digit, found bit by bit
RECURSIVE QuotientDigit(_, _, _, _)
QuotientDigit(a, b, bit, d) ==
    IF bit < 0 THEN d
    ELSE IF NLt(a, NTrim(NMulDigit(b, d + 2^bit, 1, 0)))
         THEN QuotientDigit(a, b, bit - 1, d)
         ELSE QuotientDigit(a, b, bit - 1, d + 2^bit)

\* <<floor(a / b), a mod b>> by long division, one digit of a at a time
\* (each digit and remainder is computed before the next one is begun)
RECURSIVE NDivFrom(_, _, _, _, _)
NDivFrom(a, b, i, q, r) ==
    IF i = 0 THEN <<NTrim(q), r>>
    ELSE LET r2 == NTrim(<<a[i]>> \o r)
             d == QuotientDigit(r2, b, DigitBits - 1, 0)
             r3 == NSub(r2, NTrim(NMulDigit(b, d, 1, 0)))
         IN  IF Len(r3) >= 0 THEN NDivFrom(a, b, i - 1, <<d>> \o q, r3) ELSE <<>>

NDivMod(a, b) == NDivFrom(a, b, Len(a), <<>>, <<>>)

FltZero == [s |-> 1, m |-> <<>>, e |-> 0]

\* s * (M + t) * 2^E rounded to MantBits bits, ties to even, where
\* 0 <= t < 1 and t > 0 exactly if sticky
FltRound(s, M, E, sticky) ==
    LET n == NBits(M)
        sh == n - MantBits
        q == NShr(M, sh)
        rem == NSub(M, NShl(q, sh))
        half == NShl(<<1>>, sh - 1)
        up == IF sh = 0 THEN FALSE
              ELSE \/ NLt(half, rem)
                   \/ rem = half /\ (sticky \/ NBit(q, 1) = 1)
        q1 == IF up THEN NAdd(q, <<1>>) ELSE q
    IN  IF n = 0 THEN FltZero
        ELSE IF sh <= 0 THEN [s |-> s, m |-> NShl(M, -sh), e |-> E + sh]
        ELSE IF NBits(q1) > MantBits THEN [s |-> s, m |-> NShr(q1, 1), e |-> E + sh + 1]
        ELSE [s |-> s, m |-> q1, e |-> E + sh]

FltNeg(x) == IF x.m = <<>> THEN x ELSE [x EXCEPT !.s = -x.s]

FltMul(x, y) ==
    IF x.m = <<>> \/ y.m = <<>> THEN FltZero
    ELSE FltRound(x.s * y.s, NMul(x.m, y.m), x.e + y.e, FALSE)

FltAdd(x, y) ==
    LET e == IF x.e < y.e THEN x.e ELSE y.e
        X == NShl(x.m, x.e - e)
        Y == NShl(y.m, y.e - e)
    IN  IF x.m = <<>> THEN y
        ELSE IF y.m = <<>> THEN x
        ELSE IF x.s = y.s THEN FltRound(x.s, NAdd(X, Y), e, FALSE)
        ELSE IF NLt(X, Y) THEN FltRound(y.s, NSub(Y, X), e, FALSE)
        ELSE FltRound(x.s, NSub(X, Y), e, FALSE)

FltSub(x, y) == FltAdd(x, FltNeg(y))

\* N / D for natural numbers N and D > 0, rounded once
FltRatio(N, D) ==
    LET want == MantBits + 3 + NBits(D) - NBits(N)
        sh == IF want > 0 THEN want ELSE 0
        qr == NDivMod(NShl(N, sh), D)
    IN  IF N = <<>> THEN FltZero ELSE FltRound(1, qr[1], -sh, qr[2] # <<>>)

\* x / y for y # 0
FltDiv(x, y) ==
    LET q == FltRatio(x.m, y.m)
    IN  IF x.m = <<>> THEN FltZero
        ELSE [s |-> x.s * y.s, m |-> q.m, e |-> q.e + x.e - y.e]

\* float(Decimal(c) / 10^k): the decimal c * 10^-k as the nearest binary64
FltDec(c, k) == FltRatio(Nat2(c), NPow(Nat2(10), k))

\* float(n) for an int
FltInt(n) == FltRatio(Nat2(n), <<1>>)

\* x ** n for an int n >= 0: the exact power rounded once
FltPow(x, n) ==
    IF x.m = <<>> /\ n > 0 THEN FltZero ELSE FltRound(1, NPow(x.m, n), x.e * n, FALSE)

\* round(x, 2) as a whole number of hundredths: the exact value of x times
\* 100, rounded half to even
Hundredths(x) ==
    LET N == NMul(x.m, Nat2(100))
        q == NShr(N, -x.e)
        rem == NSub(N, NShl(q, -x.e))
        half == NShl(<<1>>, -x.e - 1)
        up == NLt(half, rem) \/ (rem = half /\ NBit(q, 1) = 1)
    IN  IF x.m = <<>> THEN <<>>
        ELSE IF x.e >= 0 THEN NShl(N, x.e)
        ELSE IF up THEN NAdd(q, <<1>>) ELSE q

\* ------------------------------------------------------------- the stores
\* positions:    the cashposition table, one row per (provider, account_id)
\* reservations: the fundreservation table in insertion order; a row's
\*               place is the key session.get() looks it up by
\* last:         the mutating call that completed last: its arguments, its
\*               outcome and, for the treasury, the balances its position
\*               had when it was called
\* sess:         the sessions of the callers running concurrently
\* journals:     the journal table in insertion order
\* accounts:     the chart of accounts in the order list_chart_accounts
\*               returns it (by code)
\* loans:        the loan table in insertion order
\* reply:        what the query called last returned, NoReply once another
\*               handler has completed since
\* disbursements, repayments, payments, schedule: the loandisbursement,
\*               loanrepayment, payment and loanschedule tables in insertion
\*               order
\* ledger_accounts, transfers: the account and fundingtransfer tables in
\*               insertion order
VARIABLES positions, reservations, last, sess, journals, accounts, loans, reply,
          disbursements, repayments, payments, schedule, ledger_accounts,
          transfers

vars == <<positions, reservations, last, sess, journals, accounts, loans, reply,
          disbursements, repayments, payments, schedule, ledger_accounts,
          transfers>>

PosKeys == {"MTN:001", "BANK:001"}
NoKey == "NONE:000"
InitCents == [k \in PosKeys |-> IF k = "MTN:001" THEN 4 ELSE 11]
AmountCents == {1, 2, 4}
Procs == {1, 2}

\* The chart of accounts the ledger is opened with, ordered by code.
ChartOfAccounts ==
    << [id |-> "A", currency_code |-> "USD"],
       [id |-> "B", currency_code |-> "USD"],
       [id |-> "C", currency_code |-> "USD"] >>

Balances(p) == <<p.total_balance, p.available_balance, p.reserved_balance>>
NoBalances == <<Zero, Zero, Zero>>
Idle == [pc |-> "idle"]
NoReply == [op |-> "none", args |-> <<>>, status |-> "none", value |-> <<>>]

\* fetch_balance: the row of (provider, account_id), or NotFoundError
PositionExists(k) == k \in DOMAIN positions

\* Faulty variant: the test made against the total instead of the available balance
InsufficientFunds_OnTotal(p, c) == FltLtDec(p.total_balance, c)

\* reserve_funds: if position.available_balance < reserve_in.amount
InsufficientFunds(p, c) == FltLtDec(p.available_balance, c)

\* reserve_funds: the two balance updates
ReservedPosition(p, c) ==
    [p EXCEPT !.reserved_balance = FAdd(@, ToFloat(c)),
              !.available_balance = FSub(@, ToFloat(c))]

\* reserve_funds: the FundReservation row
NewReservation(k, p, c) ==
    [key |-> k, amount |-> ToFloat(c), currency_code |-> p.currency_code,
     status |-> "ACTIVE", released_at |-> "NULL"]

\* Faulty variant: only a RELEASED reservation is refused
IsActive_NotReleased(r) == r.status # "RELEASED"

\* release_reservation / confirm_reservation: if reservation.status != "ACTIVE"
IsActive(r) == r.status = "ACTIVE"

\* release_reservation: the two balance updates
ReleasedPosition(p, r) ==
    [p EXCEPT !.reserved_balance = FSub(@, r.amount),
              !.available_balance = FAdd(@, r.amount)]

\* release_reservation: the reservation update
ReleasedReservation(r) == [r EXCEPT !.status = "RELEASED", !.released_at = "SET"]

\* confirm_reservation: the two balance updates
ConfirmedPosition(p, r) ==
    [p EXCEPT !.reserved_balance = FSub(@, r.amount),
              !.total_balance = FSub(@, r.amount)]

\* confirm_reservation: the reservation update
ConfirmedReservation(r) == [r EXCEPT !.status = "CONFIRMED", !.released_at = "SET"]

Call(op, arg, amt, result, pre) ==
    [op |-> op, arg |-> arg, amt |-> amt, result |-> result, pre |-> pre]

\* ---------------------------------------------- one caller at a time
reserve_funds(k, c) ==
    /\ UNCHANGED <<sess, journals, accounts, loans, disbursements, repayments, payments, schedule,
                   ledger_accounts, transfers>>
    /\ reply' = NoReply
    /\ IF ~PositionExists(k)
       THEN /\ last' = Call("reserve_funds", k, c, "NotFoundError", NoBalances)
            /\ UNCHANGED <<positions, reservations>>
       ELSE IF InsufficientFunds(positions[k], c)
       THEN /\ last' = Call("reserve_funds", k, c, "ValidationError", Balances(positions[k]))
            /\ UNCHANGED <<positions, reservations>>
       ELSE /\ Len(reservations) < MaxRes
            /\ positions' = [positions EXCEPT ![k] = ReservedPosition(@, c)]
            /\ reservations' = Append(reservations, NewReservation(k, positions[k], c))
            /\ last' = Call("reserve_funds", k, c, "ok", Balances(positions[k]))

release_reservation(rid) ==
    /\ UNCHANGED <<sess, journals, accounts, loans, disbursements, repayments, payments, schedule,
                   ledger_accounts, transfers>>
    /\ reply' = NoReply
    /\ IF rid \notin DOMAIN reservations
       THEN /\ last' = Call("release_reservation", rid, 0, "NotFoundError", NoBalances)
            /\ UNCHANGED <<positions, reservations>>
       ELSE LET r == reservations[rid] IN
            IF ~IsActive(r)
            THEN /\ last' = Call("release_reservation", rid, 0, "ValidationError",
                                 Balances(positions[r.key]))
                 /\ UNCHANGED <<positions, reservations>>
            ELSE /\ positions' = [positions EXCEPT ![r.key] = ReleasedPosition(@, r)]
                 /\ reservations' = [reservations EXCEPT ![rid] = ReleasedReservation(@)]
                 /\ last' = Call("release_reservation", rid, 0, "ok",
                                 Balances(positions[r.key]))

confirm_reservation(rid) ==
    /\ UNCHANGED <<sess, journals, accounts, loans, disbursements, repayments, payments, schedule,
                   ledger_accounts, transfers>>
    /\ reply' = NoReply
    /\ IF rid \notin DOMAIN reservations
       THEN /\ last' = Call("confirm_reservation", rid, 0, "NotFoundError", NoBalances)
            /\ UNCHANGED <<positions, reservations>>
       ELSE LET r == reservations[rid] IN
            IF ~IsActive(r)
            THEN /\ last' = Call("confirm_reservation", rid, 0, "ValidationError",
                                 Balances(positions[r.key]))
                 /\ UNCHANGED <<positions, reservations>>
            ELSE /\ positions' = [positions EXCEPT ![r.key] = ConfirmedPosition(@, r)]
                 /\ reservations' = [reservations EXCEPT ![rid] = ConfirmedReservation(@)]
                 /\ last' = Call("confirm_reservation", rid, 0, "ok",
                                 Balances(positions[r.key]))

\* create_cash_position: the CashPosition row
NewPosition(ccy, t, a, r) ==
    [currency_code |-> ccy, total_balance |-> t, available_balance |-> a,
     reserved_balance |-> r, last_synced_at |-> "SET"]

\* update_balance: the four assignments
UpdatedPosition(p, t, a, r) ==
    [p EXCEPT !.total_balance = t, !.available_balance = a,
              !.reserved_balance = r, !.last_synced_at = "SET"]

create_cash_position(k, ccy, t, a, r) ==
    /\ UNCHANGED <<reservations, sess, journals, accounts, loans,
                   disbursements, repayments, payments, schedule,
                   ledger_accounts, transfers>>
    /\ reply' = NoReply
    /\ IF PositionExists(k)
       THEN /\ last' = Call("create_cash_position", k, 0, "ValidationError",
                            Balances(positions[k]))
            /\ UNCHANGED positions
       ELSE /\ positions' = (k :> NewPosition(ccy, t, a, r)) @@ positions
            /\ last' = Call("create_cash_position", k, 0, "ok", NoBalances)

update_balance(k, t, a, r) ==
    /\ UNCHANGED <<reservations, sess, journals, accounts, loans,
                   disbursements, repayments, payments, schedule,
                   ledger_accounts, transfers>>
    /\ reply' = NoReply
    /\ IF ~PositionExists(k)
       THEN /\ last' = Call("update_balance", k, 0, "NotFoundError", NoBalances)
            /\ UNCHANGED positions
       ELSE /\ positions' = [positions EXCEPT ![k] = UpdatedPosition(@, t, a, r)]
            /\ last' = Call("update_balance", k, 0, "ok", Balances(positions[k]))

\* A position onboarded with c/100 available and nothing reserved.
Onboarded(c) == NewPosition("ZMW", ToFloat(c), ToFloat(c), Zero)

InitTreasury ==
    /\ positions = [k \in PosKeys |-> Onboarded(InitCents[k])]
    /\ reservations = <<>>
    /\ last = Call("none", NoKey, 0, "ok", NoBalances)
    /\ sess = [p \in Procs |-> Idle]
    /\ journals = <<>>
    /\ accounts = ChartOfAccounts
    /\ loans = <<>>
    /\ disbursements = <<>>
    /\ repayments = <<>>
    /\ payments = <<>>
    /\ schedule = <<>>
    /\ ledger_accounts = <<>>
    /\ transfers = <<>>
    /\ reply = NoReply

NextTreasury ==
    \/ \E k \in PosKeys \cup {NoKey}, c \in AmountCents : reserve_funds(k, c)
    \/ \E rid \in 1..(MaxRes + 1) : release_reservation(rid)
    \/ \E rid \in 1..(MaxRes + 1) : confirm_reservation(rid)

SpecTreasury == InitTreasury /\ [][NextTreasury]_vars

\* ------------------------------------------- callers running concurrently
\* Each caller has its own Session: reserve_funds loads the row and tests it
\* (lines 247-252), changes its own copy, and commit() writes the columns it
\* changed with the values it computed from that copy.  Nothing in the code
\* locks the row (no with_for_update, no version check), so other callers'
\* commits may fall between the two steps.
CanStart(p) == sess[p].pc \in {"idle", "done"}
Loaded == {p \in Procs : sess[p].pc = "loaded"}

ReserveLoad(p, k, c) ==
    /\ CanStart(p)
    /\ Len(reservations) + Cardinality(Loaded) < MaxRes
    /\ UNCHANGED <<positions, reservations, last, journals, accounts, loans,
                   disbursements, repayments, payments, schedule, reply,
                   ledger_accounts, transfers>>
    /\ sess' = [sess EXCEPT ![p] =
         IF ~PositionExists(k)
         THEN [pc |-> "done", op |-> "reserve_funds", key |-> k, amt |-> c,
               snap |-> NoBalances, result |-> "NotFoundError"]
         ELSE IF InsufficientFunds(positions[k], c)
         THEN [pc |-> "done", op |-> "reserve_funds", key |-> k, amt |-> c,
               snap |-> Balances(positions[k]), result |-> "ValidationError"]
         ELSE [pc |-> "loaded", op |-> "reserve_funds", key |-> k, amt |-> c,
               snap |-> Balances(positions[k]), row |-> positions[k],
               result |-> "pending"]]

ReserveCommit(p) ==
    /\ sess[p].pc = "loaded"
    /\ sess[p].op = "reserve_funds"
    /\ LET k == sess[p].key
           mine == ReservedPosition(sess[p].row, sess[p].amt)
       IN  /\ positions' = [positions EXCEPT
                   ![k].reserved_balance = mine.reserved_balance,
                   ![k].available_balance = mine.available_balance]
           /\ reservations' = Append(reservations,
                   NewReservation(k, sess[p].row, sess[p].amt))
    /\ sess' = [sess EXCEPT ![p] =
                   [pc |-> "done", op |-> "reserve_funds", key |-> sess[p].key,
                    amt |-> sess[p].amt, snap |-> sess[p].snap, result |-> "ok"]]
    /\ UNCHANGED <<last, journals, accounts, loans, disbursements, repayments, payments, schedule,
                   ledger_accounts, transfers>>
    /\ reply' = NoReply

NextTreasuryConc ==
    \/ \E p \in Procs, k \in PosKeys \cup {NoKey}, c \in AmountCents : ReserveLoad(p, k, c)
    \/ \E p \in Procs : ReserveCommit(p)

SpecTreasuryConc == InitTreasury /\ [][NextTreasuryConc]_vars

\* ------------------------------------------------ onboarding and sync
TotalInputs == {Zero, ToFloat(1)}
FloatInputs == {Zero, ToFloat(1), XNeg(ToFloat(1))}

InitCash ==
    /\ positions = <<>>
    /\ reservations = <<>>
    /\ last = Call("none", NoKey, 0, "ok", NoBalances)
    /\ sess = [p \in Procs |-> Idle]
    /\ journals = <<>>
    /\ accounts = ChartOfAccounts
    /\ loans = <<>>
    /\ disbursements = <<>>
    /\ repayments = <<>>
    /\ payments = <<>>
    /\ schedule = <<>>
    /\ ledger_accounts = <<>>
    /\ transfers = <<>>
    /\ reply = NoReply

NextCash ==
    \/ \E k \in PosKeys, t \in TotalInputs, a \in FloatInputs, r \in FloatInputs :
          create_cash_position(k, "ZMW", t, a, r)
    \/ \E k \in PosKeys, t \in TotalInputs, a \in FloatInputs, r \in FloatInputs :
          update_balance(k, t, a, r)

SpecCash == InitCash /\ [][NextCash]_vars

\* ------------------------------------------------------- journal store
\* create_journal run by concurrent callers: the SELECT by reference and the
\* raise (lines 48-51), then add/commit (lines 53-54), where the table's
\* unique index on reference (Journal.reference, unique=True) refuses a
\* second row with sqlalchemy's IntegrityError.
References == {"JRN-1", "JRN-2"}

\* Faulty variant: only the journal stored last is compared
ReferenceExists_LastOnly(ref) ==
    journals # <<>> /\ journals[Len(journals)].reference = ref

ReferenceExists(ref) == \E i \in DOMAIN journals : journals[i].reference = ref

NewJournal(ref) == [reference |-> ref, status |-> "pending"]

JournalSelect(p, ref) ==
    /\ CanStart(p)
    /\ UNCHANGED <<positions, reservations, last, journals, accounts, loans,
                   disbursements, repayments, payments, schedule, reply,
                   ledger_accounts, transfers>>
    /\ sess' = [sess EXCEPT ![p] =
         IF ReferenceExists(ref)
         THEN [pc |-> "done", op |-> "create_journal", reference |-> ref,
               result |-> "ValueError: already exists"]
         ELSE [pc |-> "checked", op |-> "create_journal", reference |-> ref,
               result |-> "pending"]]

JournalCommit(p) ==
    /\ sess[p].pc = "checked"
    /\ UNCHANGED <<positions, reservations, last, accounts, loans,
                   disbursements, repayments, payments, schedule,
                   ledger_accounts, transfers>>
    /\ reply' = NoReply
    /\ IF ReferenceExists(sess[p].reference)
       THEN /\ journals' = journals
            /\ sess' = [sess EXCEPT ![p].pc = "done", ![p].result = "IntegrityError"]
       ELSE /\ journals' = Append(journals, NewJournal(sess[p].reference))
            /\ sess' = [sess EXCEPT ![p].pc = "done", ![p].result = "ok"]

InitJournal ==
    /\ positions = <<>>
    /\ reservations = <<>>
    /\ last = Call("none", NoKey, 0, "ok", NoBalances)
    /\ sess = [p \in Procs |-> Idle]
    /\ journals = <<>>
    /\ accounts = ChartOfAccounts
    /\ loans = <<>>
    /\ disbursements = <<>>
    /\ repayments = <<>>
    /\ payments = <<>>
    /\ schedule = <<>>
    /\ ledger_accounts = <<>>
    /\ transfers = <<>>
    /\ reply = NoReply

NextJournalConc ==
    \/ \E p \in Procs, ref \in References : JournalSelect(p, ref)
    \/ \E p \in Procs : JournalCommit(p)

SpecJournalConc == InitJournal /\ [][NextJournalConc]_vars

\* ---------------------------------------- journal store, one caller at a time
\* A posting as the balance engine reads it (posting.debit_account_id,
\* posting.credit_account_id, posting.money, posting.timestamp): the Posting
\* domain object.  money.amount is a Decimal with two places, held here in
\* hundredths; timestamps are points of a discrete clock.
NewPosting(debit, credit, amount, ccy, ts) ==
    [debit_account_id |-> debit, credit_account_id |-> credit,
     money |-> [amount |-> amount, currency |-> ccy], timestamp |-> ts]

\* Faulty variant: an amount of zero passes
ValidPosting_ZeroAmount(p) ==
    /\ p.debit_account_id # p.credit_account_id
    /\ p.money.amount >= 0
    /\ p.money.currency # ""
    /\ Len(p.money.currency) = 3

\* Posting.__post_init__: the three DomainError tests
ValidPosting(p) ==
    /\ p.debit_account_id # p.credit_account_id
    /\ p.money.amount > 0
    /\ p.money.currency # ""
    /\ Len(p.money.currency) = 3

\* The Journal object handed to create_journal: its reference, the totals the
\* caller filled in (total_debit, total_credit, in hundredths), its postings.
JournalRow(ref, td, tc, ps) ==
    [reference |-> ref, status |-> "pending", total_debit |-> td,
     total_credit |-> tc, postings |-> ps]

\* create_journal: SELECT by reference, raise ValueError if a row exists,
\* otherwise add and commit the object as it was handed in.
create_journal(j) ==
    /\ UNCHANGED <<positions, reservations, sess, accounts, loans,
                   disbursements, repayments, payments, schedule,
                   ledger_accounts, transfers>>
    /\ reply' = NoReply
    /\ IF ReferenceExists(j.reference)
       THEN /\ last' = Call("create_journal", j.reference, 0,
                            "ValueError: already exists", NoBalances)
            /\ UNCHANGED journals
       ELSE /\ Len(journals) < MaxJournals
            /\ journals' = Append(journals, j)
            /\ last' = Call("create_journal", j.reference, 0, "ok", NoBalances)

JournalTotals == {<<10000, 10000>>, <<10000, 9000>>, <<0, 0>>}
JournalPostings ==
    {p \in {NewPosting(d, c, a, "USD", 1) : d \in {"A", "B"}, c \in {"A", "B"}, a \in {1, 2}} :
        ValidPosting(p)}
JournalInputs ==
    {JournalRow(ref, t[1], t[2], <<p>>) :
        ref \in References \cup {"JRN-3"}, t \in JournalTotals, p \in JournalPostings}

NextJournal == \E j \in JournalInputs : create_journal(j)

SpecJournal == InitJournal /\ [][NextJournal]_vars

\* --------------------------------------------------------- balance engine
\* Money (backend/core/money.py) is not among the sources; it is taken from
\* the specification: a currency-tagged decimal whose binary operations fail
\* with CurrencyMismatch when the currencies differ.  A failed operation is
\* the value Mismatch, which no later operation repairs.
Money(amount, ccy) == [amount |-> amount, currency |-> ccy]
Mismatch == Money(0, "CurrencyMismatch")
MoneyAdd(m, n) ==
    IF m.currency # n.currency THEN Mismatch ELSE Money(m.amount + n.amount, m.currency)
MoneySub(m, n) ==
    IF m.currency # n.currency THEN Mismatch ELSE Money(m.amount - n.amount, m.currency)

NoTime == 0
NoCurrency == ""
Max(a, b) == IF a >= b THEN a ELSE b

Reply(op, args, status, value) ==
    [op |-> op, args |-> args, status |-> status, value |-> value]

\* Faulty variant: only the first journal is read
Postings_FirstJournal(js) == IF js = <<>> THEN <<>> ELSE Head(js).postings

\* for journal in journals: for posting in journal.postings
RECURSIVE Postings(_)
Postings(js) == IF js = <<>> THEN <<>> ELSE Head(js).postings \o Postings(Tail(js))

\* account_adapter.get_account / the rows of list_chart_accounts
AccountExists(id) == \E i \in DOMAIN accounts : accounts[i].id = id
Account(id) == accounts[CHOOSE i \in DOMAIN accounts : accounts[i].id = id]

\* Faulty variant: credit-side postings are left out of the replay
RECURSIVE Replay_DebitsOnly(_, _, _)
Replay_DebitsOnly(ps, id, balance) ==
    IF ps = <<>> THEN balance
    ELSE IF Head(ps).debit_account_id = id
         THEN Replay_DebitsOnly(Tail(ps), id, MoneyAdd(balance, Head(ps).money))
    ELSE Replay_DebitsOnly(Tail(ps), id, balance)

\* AccountBalance.compute, the loop body on the balance
RECURSIVE Replay(_, _, _)
Replay(ps, id, balance) ==
    IF ps = <<>> THEN balance
    ELSE IF Head(ps).debit_account_id = id
         THEN Replay(Tail(ps), id, MoneyAdd(balance, Head(ps).money))
    ELSE IF Head(ps).credit_account_id = id
         THEN Replay(Tail(ps), id, MoneySub(balance, Head(ps).money))
    ELSE Replay(Tail(ps), id, balance)

\* AccountBalance.compute, the loop body on last_updated
RECURSIVE LastUpdated(_, _)
LastUpdated(ps, seen) ==
    IF ps = <<>> THEN seen
    ELSE LastUpdated(Tail(ps),
                     IF seen # NoTime THEN Max(seen, Head(ps).timestamp)
                     ELSE Head(ps).timestamp)

AccountBalance_compute(id, ccy) ==
    IF ~AccountExists(id) THEN Reply("account_balance", <<id, ccy>>, "NotFoundError", <<>>)
    ELSE IF ccy # NoCurrency /\ Account(id).currency_code # ccy
    THEN Reply("account_balance", <<id, ccy>>, "ValidationError: Currency mismatch", <<>>)
    ELSE LET balance == Replay(Postings(journals), id, Money(0, Account(id).currency_code))
         IN  IF balance = Mismatch
             THEN Reply("account_balance", <<id, ccy>>, "CurrencyMismatch", <<>>)
             ELSE Reply("account_balance", <<id, ccy>>, "ok",
                        [account_id |-> id, currency |-> Account(id).currency_code,
                         balance |-> balance.amount,
                         last_updated |-> LastUpdated(Postings(journals), NoTime)])

account_balance(id, ccy) ==
    /\ reply' = AccountBalance_compute(id, ccy)
    /\ UNCHANGED <<positions, reservations, last, sess, journals, accounts, loans,
                   disbursements, repayments, payments, schedule,
                   ledger_accounts, transfers>>

\* Faulty variant: the period's last instant is left out
InPeriod_EndExclusive(t, period_start, period_end) == period_start <= t /\ t < period_end

\* PeriodBalance.compute: elif period_start <= posting_date <= period_end
InPeriod(t, period_start, period_end) == period_start <= t /\ t <= period_end

\* PeriodBalance.compute, the loop: <<opening_balance, total_debit, total_credit>>
RECURSIVE PeriodReplay(_, _, _, _, _)
PeriodReplay(ps, id, period_start, period_end, acc) ==
    IF ps = <<>> THEN acc
    ELSE LET p == Head(ps)
             is_debit == p.debit_account_id = id
             is_credit == p.credit_account_id = id
             next ==
               IF p.timestamp = NoTime THEN acc
               ELSE IF ~is_debit /\ ~is_credit THEN acc
               ELSE IF p.timestamp < period_start
                    THEN IF is_debit THEN <<MoneyAdd(acc[1], p.money), acc[2], acc[3]>>
                         ELSE <<MoneySub(acc[1], p.money), acc[2], acc[3]>>
               ELSE IF InPeriod(p.timestamp, period_start, period_end)
                    THEN IF is_debit THEN <<acc[1], MoneyAdd(acc[2], p.money), acc[3]>>
                         ELSE <<acc[1], acc[2], MoneyAdd(acc[3], p.money)>>
               ELSE acc
         IN  PeriodReplay(Tail(ps), id, period_start, period_end, next)

PeriodBalance_compute(id, period_start, period_end, ccy) ==
    LET args == <<id, period_start, period_end, ccy>> IN
    IF period_start > period_end
    THEN Reply("period_balance", args, "ValidationError: period_start after period_end", <<>>)
    ELSE IF ~AccountExists(id) THEN Reply("period_balance", args, "NotFoundError", <<>>)
    ELSE IF ccy # NoCurrency /\ Account(id).currency_code # ccy
    THEN Reply("period_balance", args, "ValidationError: Currency mismatch", <<>>)
    ELSE LET zero == Money(0, Account(id).currency_code)
             acc == PeriodReplay(Postings(journals), id, period_start, period_end,
                                 <<zero, zero, zero>>)
             closing_balance == MoneySub(MoneyAdd(acc[1], acc[2]), acc[3])
         IN  IF closing_balance = Mismatch
             THEN Reply("period_balance", args, "CurrencyMismatch", <<>>)
             ELSE Reply("period_balance", args, "ok",
                        [account_id |-> id, currency |-> Account(id).currency_code,
                         period_start |-> period_start, period_end |-> period_end,
                         opening_balance |-> acc[1].amount,
                         closing_balance |-> closing_balance.amount,
                         total_debit |-> acc[2].amount,
                         total_credit |-> acc[3].amount])

period_balance(id, period_start, period_end, ccy) ==
    /\ reply' = PeriodBalance_compute(id, period_start, period_end, ccy)
    /\ UNCHANGED <<positions, reservations, last, sess, journals, accounts, loans,
                   disbursements, repayments, payments, schedule,
                   ledger_accounts, transfers>>

\* TrialBalance.compute: the accounts kept by the account_ids filter (an
\* empty or absent list keeps them all), in chart order
Selected(account_ids) ==
    IF account_ids # {} THEN SelectSeq(accounts, LAMBDA a : a.id \in account_ids)
    ELSE accounts

\* TrialBalance.compute, the loop over journals and postings
RECURSIVE Aggregate(_, _, _)
Aggregate(ps, as_of, totals) ==
    IF ps = <<>> THEN totals
    ELSE LET p == Head(ps)
             skipped == as_of # NoTime /\ p.timestamp # NoTime /\ p.timestamp > as_of
             debited ==
               IF p.debit_account_id \in DOMAIN totals
               THEN [totals EXCEPT ![p.debit_account_id].debit = MoneyAdd(@, p.money)]
               ELSE totals
             credited ==
               IF p.credit_account_id \in DOMAIN debited
               THEN [debited EXCEPT ![p.credit_account_id].credit = MoneyAdd(@, p.money)]
               ELSE debited
         IN  Aggregate(Tail(ps), as_of, IF skipped THEN totals ELSE credited)

\* TrialBalance.compute, the loop over accounts: <<grand debit, grand credit>>
RECURSIVE GrandTotals(_, _, _)
GrandTotals(accs, totals, grand) ==
    IF accs = <<>> THEN grand
    ELSE GrandTotals(Tail(accs), totals,
                     <<MoneyAdd(grand[1], totals[Head(accs).id].debit),
                       MoneyAdd(grand[2], totals[Head(accs).id].credit)>>)

\* Faulty variant: only an excess of debits is reported
Unbalanced_DebitExcess(debit, credit) == debit > credit

\* TrialBalance.compute: if grand_total_debit.amount != grand_total_credit.amount
Unbalanced(debit, credit) == debit # credit

TrialBalance_compute(account_ids, as_of, now) ==
    LET args == <<account_ids, as_of>>
        selected == Selected(account_ids)
    IN
    IF accounts = <<>>
    THEN Reply("trial_balance", args, "ValidationError: No accounts found", <<>>)
    ELSE IF selected = <<>>
    THEN Reply("trial_balance", args, "ValidationError: None of the account_ids exist", <<>>)
    ELSE LET currency == selected[1].currency_code
             ids == {selected[i].id : i \in DOMAIN selected}
             start == [id \in ids |->
                         [debit |-> Money(0, Account(id).currency_code),
                          credit |-> Money(0, Account(id).currency_code)]]
             totals == Aggregate(Postings(journals), as_of, start)
             grand == GrandTotals(selected, totals, <<Money(0, currency), Money(0, currency)>>)
             items == [i \in DOMAIN selected |->
                         [account_id |-> selected[i].id,
                          currency |-> selected[i].currency_code,
                          debit |-> totals[selected[i].id].debit.amount,
                          credit |-> totals[selected[i].id].credit.amount]]
         IN  IF \/ grand[1] = Mismatch \/ grand[2] = Mismatch
                \/ \E id \in ids : totals[id].debit = Mismatch \/ totals[id].credit = Mismatch
             THEN Reply("trial_balance", args, "CurrencyMismatch", <<>>)
             ELSE IF Unbalanced(grand[1].amount, grand[2].amount)
             THEN Reply("trial_balance", args, "CalculationError", <<>>)
             ELSE Reply("trial_balance", args, "ok",
                        [currency |-> currency, items |-> items,
                         total_debit |-> grand[1].amount,
                         total_credit |-> grand[2].amount,
                         generated_at |-> now])

\* generated_at is datetime.utcnow() at the time of the call
trial_balance(account_ids, as_of, now) ==
    /\ reply' = TrialBalance_compute(account_ids, as_of, now)
    /\ UNCHANGED <<positions, reservations, last, sess, journals, accounts, loans,
                   disbursements, repayments, payments, schedule,
                   ledger_accounts, transfers>>

\* The ledgers the engine is run over: committed journals of valid two-account
\* postings, and a chart whose third account is kept in USD or in ZMW.
AccountIds == {"A", "B", "C"}
Timestamps == 1..3
Clock == {4, 5}
LedgerPostings ==
    {p \in {NewPosting(pr[1], pr[2], a, "USD", t) :
                pr \in {<<"A", "B">>, <<"B", "C">>}, a \in {1, 2}, t \in Timestamps} :
        ValidPosting(p)}
Balanced(ref, ps) == JournalRow(ref, 0, 0, ps)
Ledgers ==
    {<<>>}
    \cup {<<Balanced("JRN-1", <<p>>)>> : p \in LedgerPostings}
    \cup {<<Balanced("JRN-1", <<p, q>>)>> : p \in LedgerPostings, q \in LedgerPostings}
    \cup {<<Balanced("JRN-1", <<p>>), Balanced("JRN-2", <<q>>)>> :
             p \in LedgerPostings, q \in LedgerPostings}
Charts ==
    {[ChartOfAccounts EXCEPT ![3].currency_code = ccy] : ccy \in {"USD", "ZMW"}}

InitLedger ==
    /\ positions = <<>>
    /\ reservations = <<>>
    /\ last = Call("none", NoKey, 0, "ok", NoBalances)
    /\ sess = [p \in Procs |-> Idle]
    /\ journals \in Ledgers
    /\ accounts \in Charts
    /\ loans = <<>>
    /\ disbursements = <<>>
    /\ repayments = <<>>
    /\ payments = <<>>
    /\ schedule = <<>>
    /\ ledger_accounts = <<>>
    /\ transfers = <<>>
    /\ reply = NoReply

\* One specification per computation, over the same ledgers.
NextAccountBalance ==
    \E id \in AccountIds \cup {"Z"}, ccy \in {NoCurrency, "USD", "ZMW"} :
        account_balance(id, ccy)

SpecAccountBalance == InitLedger /\ [][NextAccountBalance]_vars

NextPeriodBalance ==
    \E id \in AccountIds, s \in Timestamps, e \in Timestamps, ccy \in {NoCurrency, "ZMW"} :
        period_balance(id, s, e, ccy)

SpecPeriodBalance == InitLedger /\ [][NextPeriodBalance]_vars

AccountFilters == {{}, {"A"}, {"A", "B"}, {"B", "C"}, {"Z"}}

NextTrialBalance ==
    \E ids \in AccountFilters, as_of \in {NoTime, 1, 2}, now \in Clock :
        trial_balance(ids, as_of, now)

SpecTrialBalance == InitLedger /\ [][NextTrialBalance]_vars

\* ------------------------------------------------------ liquidity oracle
\* Faulty variant: the WHERE clause is missing
Matches_Any(p, currency_code) == TRUE

\* get_liquidity: .where(CashPosition.currency_code == currency_code)
Matches(p, currency_code) == p.currency_code = currency_code

PositionsIn(currency_code) ==
    {k \in DOMAIN positions : Matches(positions[k], currency_code)}

\* func.sum over the rows K of one float column.  The database adds the rows
\* in an order of its choosing; the sums of the model have at most two terms,
\* for which every order gives the same float.
RECURSIVE ColumnSum(_, _)
ColumnSum(K, column) ==
    IF K = {} THEN Zero
    ELSE LET k == CHOOSE k \in K : TRUE
         IN  FAdd(ColumnSum(K \ {k}, column), Balances(positions[k])[column])

\* One row of the GROUP BY: the dict get_liquidity returns
LiquidityRow(currency_code) ==
    [currency_code |-> currency_code,
     total_balance |-> ColumnSum(PositionsIn(currency_code), 1),
     available_balance |-> ColumnSum(PositionsIn(currency_code), 2),
     reserved_balance |-> ColumnSum(PositionsIn(currency_code), 3)]

\* if not currency_code or len(currency_code) != 3
ValidCode(currency_code) == currency_code \in {"ZMW", "USD", "EUR"}

LiquidityProvider_get_liquidity(currency_code) ==
    IF ~ValidCode(currency_code)
    THEN Reply("get_liquidity", <<currency_code>>, "ValidationError", <<>>)
    ELSE IF PositionsIn(currency_code) = {}
    THEN Reply("get_liquidity", <<currency_code>>, "NotFoundError", <<>>)
    ELSE Reply("get_liquidity", <<currency_code>>, "ok", LiquidityRow(currency_code))

\* Faulty variant: the read stamps the rows it summed as synced
get_liquidity_Syncing(currency_code) ==
    /\ reply' = LiquidityProvider_get_liquidity(currency_code)
    /\ positions' = [k \in DOMAIN positions |->
                       IF Matches(positions[k], currency_code)
                       THEN [positions[k] EXCEPT !.last_synced_at = "NOW"]
                       ELSE positions[k]]
    /\ UNCHANGED <<reservations, last, sess, journals, accounts, loans,
                   disbursements, repayments, payments, schedule,
                   ledger_accounts, transfers>>

get_liquidity(currency_code) ==
    /\ reply' = LiquidityProvider_get_liquidity(currency_code)
    /\ UNCHANGED <<positions, reservations, last, sess, journals, accounts, loans,
                   disbursements, repayments, payments, schedule,
                   ledger_accounts, transfers>>

\* get_total_liquidity: one row per currency that has a position (the list
\* is held as the set of its rows)
get_total_liquidity ==
    /\ reply' = Reply("get_total_liquidity", <<>>, "ok",
                      {LiquidityRow(ccy) : ccy \in {positions[k].currency_code : k \in DOMAIN positions}})
    /\ UNCHANGED <<positions, reservations, last, sess, journals, accounts, loans,
                   disbursements, repayments, payments, schedule,
                   ledger_accounts, transfers>>

\* Decimal(str(x)) >= required_amount: str() gives the shortest decimal that
\* reads back as x, which is n/100 itself when x is float(n/100) and lies on
\* x's side of required_amount otherwise, so the test comes out as the
\* comparison of x with float(required_amount).
Covers(x, required_amount) == ~XLt(x, ToFloat(required_amount))

LiquidityProvider_check_sufficient_funds(currency_code, required_amount) ==
    LET args == <<currency_code, required_amount>>
        liquidity == LiquidityProvider_get_liquidity(currency_code)
    IN  IF required_amount <= 0
        THEN Reply("check_sufficient_funds", args, "ValidationError", <<>>)
        ELSE IF liquidity.status # "ok"
        THEN Reply("check_sufficient_funds", args, liquidity.status, <<>>)
        ELSE Reply("check_sufficient_funds", args, "ok",
                   Covers(liquidity.value.available_balance, required_amount))

check_sufficient_funds(currency_code, required_amount) ==
    /\ reply' = LiquidityProvider_check_sufficient_funds(currency_code, required_amount)
    /\ UNCHANGED <<positions, reservations, last, sess, journals, accounts, loans,
                   disbursements, repayments, payments, schedule,
                   ledger_accounts, transfers>>

\* The position tables the oracle is asked about: MTN in ZMW, BANK in ZMW or
\* USD, CARD in USD, each absent or holding one of three balance triples.
CardKey == "CARD:001"
BalanceTriples == {<<4, 4, 0>>, <<11, 7, 4>>, <<3, 1, 2>>}
PositionRows(ccys) ==
    {NewPosition(ccy, ToFloat(b[1]), ToFloat(b[2]), ToFloat(b[3])) :
        ccy \in ccys, b \in BalanceTriples}
PositionTables ==
    {t \in UNION {[K -> PositionRows({"ZMW", "USD"})] : K \in SUBSET (PosKeys \cup {CardKey})} :
        /\ "MTN:001" \in DOMAIN t => t["MTN:001"].currency_code = "ZMW"
        /\ CardKey \in DOMAIN t => t[CardKey].currency_code = "USD"}

InitLiquidity ==
    /\ positions \in PositionTables
    /\ reservations = <<>>
    /\ last = Call("none", NoKey, 0, "ok", NoBalances)
    /\ sess = [p \in Procs |-> Idle]
    /\ journals = <<>>
    /\ accounts = ChartOfAccounts
    /\ loans = <<>>
    /\ disbursements = <<>>
    /\ repayments = <<>>
    /\ payments = <<>>
    /\ schedule = <<>>
    /\ ledger_accounts = <<>>
    /\ transfers = <<>>
    /\ reply = NoReply

CodeInputs == {"ZMW", "USD", "EUR", "ZM"}

NextLiquidity ==
    \/ \E ccy \in CodeInputs : get_liquidity(ccy)
    \/ get_total_liquidity
    \/ \E ccy \in CodeInputs, c \in {0, 4, 8} : check_sufficient_funds(ccy, c)

SpecLiquidity == InitLiquidity /\ [][NextLiquidity]_vars

\* get_liquidity called while other sessions reserve, release and confirm:
\* its one SELECT reads the committed rows, and every writer's commit puts
\* all the columns it changed into the row at once.
NextLiquidityConc ==
    \/ \E p \in Procs, k \in PosKeys, c \in AmountCents : ReserveLoad(p, k, c)
    \/ \E p \in Procs : ReserveCommit(p)
    \/ \E rid \in 1..MaxRes : release_reservation(rid)
    \/ \E rid \in 1..MaxRes : confirm_reservation(rid)
    \/ \E ccy \in {"ZMW", "USD"} : get_liquidity(ccy)

SpecLiquidityConc == InitTreasury /\ [][NextLiquidityConc]_vars

\* ------------------------------------------- queries between mutations
\* The six read operations called in any order between reserve_funds and
\* create_journal calls, over the treasury's two positions and the chart.
QueryJournals ==
    {Balanced("JRN-1", <<NewPosting("A", "B", 1, "USD", 1)>>),
     Balanced("JRN-2", <<NewPosting("B", "C", 2, "USD", 2)>>)}

NextQueries ==
    \/ \E ccy \in {"ZMW", "USD"} : get_liquidity(ccy)
    \/ get_total_liquidity
    \/ \E c \in {4, 16} : check_sufficient_funds("ZMW", c)
    \/ \E id \in {"A", "B"} : account_balance(id, NoCurrency)
    \/ \E e \in {1, 2} : period_balance("A", 1, e, NoCurrency)
    \/ \E now \in Clock : trial_balance({}, NoTime, now)
    \/ \E k \in PosKeys : reserve_funds(k, 4)
    \/ \E j \in QueryJournals : create_journal(j)

SpecQueries == InitTreasury /\ [][NextQueries]_vars

\* ------------------------------------------------------------ loan store
\* loan_data as create_loan receives it: a dict in which a required key may
\* be missing (None).
RequiredLoanFields == {"borrower_id", "principal_amount", "interest_rate",
                       "start_date", "term_months", "currency_code"}
LoanData(missing) == [f \in RequiredLoanFields |-> IF f \in missing THEN "None" ELSE "given"]

\* create_loan: the Loan row
NewLoan == [status |-> "PENDING"]

LoanCall(op, loan_id, status, result) ==
    [op |-> op, loan_id |-> loan_id, status |-> status, result |-> result]

\* create_loan: require() on each field, then add and commit
create_loan(loan_data) ==
    /\ UNCHANGED <<positions, reservations, sess, journals, accounts,
                   disbursements, repayments, payments, schedule,
                   ledger_accounts, transfers>>
    /\ reply' = NoReply
    /\ IF \E f \in RequiredLoanFields : loan_data[f] = "None"
       THEN /\ last' = LoanCall("create_loan", 0, "PENDING", "ValidationError: required")
            /\ UNCHANGED loans
       ELSE /\ Len(loans) < MaxLoans
            /\ loans' = Append(loans, NewLoan)
            /\ last' = LoanCall("create_loan", Len(loans) + 1, "PENDING", "ok")

\* Faulty variant: a closed loan may be reopened
AllowedStatuses_Reopen(current) ==
    CASE current = "PENDING" -> {"DISBURSED"}
      [] current = "DISBURSED" -> {"ACTIVE"}
      [] current = "ACTIVE" -> {"CLOSED", "DEFAULTED"}
      [] current = "CLOSED" -> {"ACTIVE"}
      [] OTHER -> {}

\* update_loan_status: valid_transitions.get(loan.status, [])
AllowedStatuses(current) ==
    CASE current = "PENDING" -> {"DISBURSED"}
      [] current = "DISBURSED" -> {"ACTIVE"}
      [] current = "ACTIVE" -> {"CLOSED", "DEFAULTED"}
      [] current = "CLOSED" -> {}
      [] current = "DEFAULTED" -> {}
      [] OTHER -> {}

update_loan_status(loan_id, status) ==
    /\ UNCHANGED <<positions, reservations, sess, journals, accounts,
                   disbursements, repayments, payments, schedule,
                   ledger_accounts, transfers>>
    /\ reply' = NoReply
    /\ IF loan_id \notin DOMAIN loans
       THEN /\ last' = LoanCall("update_loan_status", loan_id, status, "NotFoundError")
            /\ UNCHANGED loans
       ELSE IF loans[loan_id].status = "None"
       THEN /\ last' = LoanCall("update_loan_status", loan_id, status,
                                "ValidationError: status undefined")
            /\ UNCHANGED loans
       ELSE IF status \notin AllowedStatuses(loans[loan_id].status)
       THEN /\ last' = LoanCall("update_loan_status", loan_id, status,
                                "ValidationError: Invalid status transition")
            /\ UNCHANGED loans
       ELSE /\ loans' = [loans EXCEPT ![loan_id].status = status]
            /\ last' = LoanCall("update_loan_status", loan_id, status, "ok")

LoanStatuses == {"PENDING", "DISBURSED", "ACTIVE", "CLOSED", "DEFAULTED"}
StatusInputs == LoanStatuses \cup {"WRITTEN_OFF"}

NextLoan ==
    \/ \E missing \in {{}, {"term_months"}} : create_loan(LoanData(missing))
    \/ \E loan_id \in 1..(MaxLoans + 1), status \in StatusInputs :
          update_loan_status(loan_id, status)

SpecLoan == InitJournal /\ [][NextLoan]_vars

\* ------------------------------------------- disbursements and repayments
\* A text column (notes) is the sequence of its lines, so that a string is a
\* non-empty sequence and '' is <<"">>; None is the empty sequence.  The
\* reasons of the model are far shorter than the columns.
None == <<>>
OrEmpty(notes) == IF notes = None THEN <<"">> ELSE notes

\* f"{notes or ''}\n{label}: {reason}"
Annotated(notes, label, reason) == OrEmpty(notes) \o <<label \o ": " \o reason>>

\* What a provider call of the loan, payment and posting components did: the
\* handler, the row (for a creation, the loan) it was called for and "ok" or
\* the exception raised.
Outcome(op, id, result) == [op |-> op, id |-> id, result |-> result]

\* require(data, key, cast): data.get(key) is None
Missing(data, keys) == \E key \in keys : key \in data.missing

\* session.get(Loan, loan_id)
LoanExists(loan_id) == loan_id \in DOMAIN loans

\* Faulty variant: an ACTIVE loan may be disbursed again
Disbursable_Active(status) == status \in {"PENDING", "DISBURSED", "ACTIVE"}

\* create_disbursement: loan.status in ["PENDING", "DISBURSED"]
Disbursable(status) == status \in {"PENDING", "DISBURSED"}

\* create_disbursement: the LoanDisbursement row
NewDisbursement(data) ==
    [loan_id |-> data.loan_id, disbursement_amount |-> FltDec(data.disbursement_amount, 2),
     status |-> "PENDING", notes |-> data.notes]

DisbursementFields == {"loan_id", "disbursement_amount", "disbursement_account_id",
                       "disbursement_date", "payment_provider"}

create_disbursement(data) ==
    /\ UNCHANGED <<positions, reservations, sess, journals, accounts, loans,
                   repayments, payments, schedule,
                   ledger_accounts, transfers>>
    /\ reply' = NoReply
    /\ IF Missing(data, DisbursementFields)
       THEN /\ last' = Outcome("create_disbursement", data.loan_id, "ValidationError: required")
            /\ UNCHANGED disbursements
       ELSE IF ~LoanExists(data.loan_id)
       THEN /\ last' = Outcome("create_disbursement", data.loan_id, "NotFoundError")
            /\ UNCHANGED disbursements
       ELSE IF ~Disbursable(loans[data.loan_id].status)
       THEN /\ last' = Outcome("create_disbursement", data.loan_id,
                               "ValidationError: Cannot disburse loan with status "
                                   \o loans[data.loan_id].status)
            /\ UNCHANGED disbursements
       ELSE /\ Len(disbursements) < MaxIntents
            /\ disbursements' = Append(disbursements, NewDisbursement(data))
            /\ last' = Outcome("create_disbursement", data.loan_id, "ok")

\* get_disbursement: session.get(LoanDisbursement, disbursement_id)
DisbursementExists(disbursement_id) == disbursement_id \in DOMAIN disbursements

execute_disbursement(disbursement_id) ==
    /\ UNCHANGED <<positions, reservations, sess, journals, accounts, loans,
                   repayments, payments, schedule,
                   ledger_accounts, transfers>>
    /\ reply' = NoReply
    /\ IF ~DisbursementExists(disbursement_id)
       THEN /\ last' = Outcome("execute_disbursement", disbursement_id, "NotFoundError")
            /\ UNCHANGED disbursements
       ELSE IF disbursements[disbursement_id].status # "PENDING"
       THEN /\ last' = Outcome("execute_disbursement", disbursement_id,
                               "ValidationError: Disbursement already "
                                   \o disbursements[disbursement_id].status)
            /\ UNCHANGED disbursements
       ELSE /\ disbursements' = [disbursements EXCEPT ![disbursement_id].status = "COMPLETED"]
            /\ last' = Outcome("execute_disbursement", disbursement_id, "ok")

\* fail_disbursement: the status is not examined
fail_disbursement(disbursement_id, reason) ==
    /\ UNCHANGED <<positions, reservations, sess, journals, accounts, loans,
                   repayments, payments, schedule,
                   ledger_accounts, transfers>>
    /\ reply' = NoReply
    /\ IF ~DisbursementExists(disbursement_id)
       THEN /\ last' = Outcome("fail_disbursement", disbursement_id, "NotFoundError")
            /\ UNCHANGED disbursements
       ELSE /\ Len(disbursements[disbursement_id].notes) < MaxNotes
            /\ disbursements' =
                  [disbursements EXCEPT ![disbursement_id].status = "FAILED",
                                        ![disbursement_id].notes = Annotated(@, "Failed", reason)]
            /\ last' = Outcome("fail_disbursement", disbursement_id, "ok")

\* create_repayment: the LoanRepayment row, nothing allocated yet
NewRepayment(data) ==
    [loan_id |-> data.loan_id, payment_amount |-> FltDec(data.payment_amount, 2),
     principal_applied |-> FltZero, interest_applied |-> FltZero,
     status |-> "PENDING", notes |-> data.notes]

RepaymentFields == {"loan_id", "payment_amount", "payment_date", "payment_method"}

\* create_repayment: loan.status != "ACTIVE" is refused
Repayable(status) == status = "ACTIVE"

create_repayment(data) ==
    /\ UNCHANGED <<positions, reservations, sess, journals, accounts, loans,
                   disbursements, payments, schedule,
                   ledger_accounts, transfers>>
    /\ reply' = NoReply
    /\ IF Missing(data, RepaymentFields)
       THEN /\ last' = Outcome("create_repayment", data.loan_id, "ValidationError: required")
            /\ UNCHANGED repayments
       ELSE IF ~LoanExists(data.loan_id)
       THEN /\ last' = Outcome("create_repayment", data.loan_id, "NotFoundError")
            /\ UNCHANGED repayments
       ELSE IF ~Repayable(loans[data.loan_id].status)
       THEN /\ last' = Outcome("create_repayment", data.loan_id,
                               "ValidationError: Cannot accept payment for loan with status "
                                   \o loans[data.loan_id].status)
            /\ UNCHANGED repayments
       ELSE /\ Len(repayments) < MaxIntents
            /\ repayments' = Append(repayments, NewRepayment(data))
            /\ last' = Outcome("create_repayment", data.loan_id, "ok")

\* get_repayment: session.get(LoanRepayment, repayment_id)
RepaymentExists(repayment_id) == repayment_id \in DOMAIN repayments

\* apply_repayment: interest_applied = payment_amount * 0.2
InterestShare(payment_amount) == FltMul(payment_amount, FltDec(2, 1))

\* apply_repayment: principal_applied = payment_amount - interest_applied
PrincipalShare(payment_amount) == FltSub(payment_amount, InterestShare(payment_amount))

\* Faulty variant: a repayment may be applied again
Appliable_Again(status) == status \in {"PENDING", "APPLIED"}

\* apply_repayment: repayment.status != "PENDING" is refused
Appliable(status) == status = "PENDING"

apply_repayment(repayment_id) ==
    /\ UNCHANGED <<positions, reservations, sess, journals, accounts, loans,
                   disbursements, payments, schedule,
                   ledger_accounts, transfers>>
    /\ reply' = NoReply
    /\ IF ~RepaymentExists(repayment_id)
       THEN /\ last' = Outcome("apply_repayment", repayment_id, "NotFoundError")
            /\ UNCHANGED repayments
       ELSE IF ~Appliable(repayments[repayment_id].status)
       THEN /\ last' = Outcome("apply_repayment", repayment_id,
                               "ValidationError: Repayment already "
                                   \o repayments[repayment_id].status)
            /\ UNCHANGED repayments
       ELSE /\ repayments' =
                  [repayments EXCEPT
                      ![repayment_id].interest_applied =
                          InterestShare(repayments[repayment_id].payment_amount),
                      ![repayment_id].principal_applied =
                          PrincipalShare(repayments[repayment_id].payment_amount),
                      ![repayment_id].status = "APPLIED"]
            /\ last' = Outcome("apply_repayment", repayment_id, "ok")

reverse_repayment(repayment_id, reason) ==
    /\ UNCHANGED <<positions, reservations, sess, journals, accounts, loans,
                   disbursements, payments, schedule,
                   ledger_accounts, transfers>>
    /\ reply' = NoReply
    /\ IF ~RepaymentExists(repayment_id)
       THEN /\ last' = Outcome("reverse_repayment", repayment_id, "NotFoundError")
            /\ UNCHANGED repayments
       ELSE IF repayments[repayment_id].status # "APPLIED"
       THEN /\ last' = Outcome("reverse_repayment", repayment_id,
                               "ValidationError: Can only reverse APPLIED repayments")
            /\ UNCHANGED repayments
       ELSE /\ repayments' =
                  [repayments EXCEPT ![repayment_id].status = "REVERSED",
                                     ![repayment_id].notes = Annotated(@, "Reversed", reason)]
            /\ last' = Outcome("reverse_repayment", repayment_id, "ok")

\* One loan, created and moved through its statuses, with the disbursements
\* made for it; calls name that loan or one that does not exist.
OneLoan == <<NewLoan>>
Reasons == {"timeout"}
NoteInputs == {None, <<"memo">>}
DisbursementInputs ==
    {[loan_id |-> l, disbursement_amount |-> 500, notes |-> n, missing |-> m] :
        l \in 1..2, n \in NoteInputs, m \in {{}, {"payment_provider"}}}

\* The repayments received for that loan.  2.85 is an amount whose two
\* shares do not add up to it in binary64: 2.85 * 0.2 is
\* 0.5700000000000001 and 2.85 less that is 2.2800000000000002.
PaymentCents == {100, 285}
RepaymentInputs ==
    {[loan_id |-> l, payment_amount |-> c, notes |-> None, missing |-> m] :
        l \in 1..2, c \in PaymentCents, m \in {{}, {"payment_method"}}}

InitLending ==
    /\ positions = <<>>
    /\ reservations = <<>>
    /\ last = Outcome("create_loan", 1, "ok")
    /\ sess = [p \in Procs |-> Idle]
    /\ journals = <<>>
    /\ accounts = ChartOfAccounts
    /\ loans = OneLoan
    /\ reply = NoReply
    /\ disbursements = <<>>
    /\ repayments = <<>>
    /\ payments = <<>>
    /\ schedule = <<>>
    /\ ledger_accounts = <<>>
    /\ transfers = <<>>

\* Intents created while the loan moves through its statuses
NextLending ==
    \/ \E status \in LoanStatuses : update_loan_status(1, status)
    \/ \E data \in DisbursementInputs : create_disbursement(data)
    \/ \E data \in RepaymentInputs : create_repayment(data)

SpecLending == InitLending /\ [][NextLending]_vars

NextDisbursement ==
    \/ \E status \in LoanStatuses : update_loan_status(1, status)
    \/ \E data \in DisbursementInputs : create_disbursement(data)
    \/ \E id \in 1..(MaxIntents + 1) : execute_disbursement(id)
    \/ \E id \in 1..(MaxIntents + 1), reason \in Reasons : fail_disbursement(id, reason)

SpecDisbursement == InitLending /\ [][NextDisbursement]_vars

NextRepayment ==
    \/ \E status \in LoanStatuses : update_loan_status(1, status)
    \/ \E data \in RepaymentInputs : create_repayment(data)
    \/ \E id \in 1..(MaxIntents + 1) : apply_repayment(id)
    \/ \E id \in 1..(MaxIntents + 1), reason \in Reasons : reverse_repayment(id, reason)

SpecRepayment == InitLending /\ [][NextRepayment]_vars

\* ---------------------------------------------------------------- payments
\* One payment table serves the inbound, outbound and settlement providers;
\* each provider only finds the rows of its own payment_type.
NoAccount == ""

\* UUID(text): the identifier a string denotes, whatever the case of its
\* digits; a string that is no UUID makes require() raise
IsUuid(text) == text \in {"aaaa", "AAAA", "bbbb"}
Uuid(text) == IF text = "AAAA" THEN "aaaa" ELSE text

\* The Payment row the three creations build
NewPayment(payment_type, source, destination, data) ==
    [payment_type |-> payment_type, amount |-> FltDec(data.amount, 2),
     status |-> "PENDING", source_account_id |-> source,
     destination_account_id |-> destination, notes |-> data.notes,
     processed_at |-> NoTime]

\* require(): the field is missing, or its cast raises
Invalid(data, keys, uuids) ==
    \/ Missing(data, keys)
    \/ \E key \in uuids : ~IsUuid(data[key])

\* add, commit, refresh
Stored(op, row) ==
    /\ Len(payments) < MaxPayments
    /\ payments' = Append(payments, row)
    /\ last' = Outcome(op, Len(payments) + 1, "ok")

Refused(op, id, error) ==
    /\ last' = Outcome(op, id, error)
    /\ UNCHANGED payments

create_inbound_payment(data) ==
    /\ UNCHANGED <<positions, reservations, sess, journals, accounts, loans,
                   disbursements, repayments, schedule,
                   ledger_accounts, transfers>>
    /\ reply' = NoReply
    /\ IF Invalid(data, {"amount", "currency_code", "destination_account_id", "provider_type"},
                  {"destination_account_id"})
       THEN Refused("create_inbound_payment", 0, "ValidationError")
       ELSE Stored("create_inbound_payment",
                   NewPayment("INBOUND", NoAccount, Uuid(data.destination_account_id), data))

create_outbound_payment(data) ==
    /\ UNCHANGED <<positions, reservations, sess, journals, accounts, loans,
                   disbursements, repayments, schedule,
                   ledger_accounts, transfers>>
    /\ reply' = NoReply
    /\ IF Invalid(data, {"amount", "currency_code", "source_account_id", "provider_type"},
                  {"source_account_id"})
       THEN Refused("create_outbound_payment", 0, "ValidationError")
       ELSE Stored("create_outbound_payment",
                   NewPayment("OUTBOUND", Uuid(data.source_account_id),
                              data.destination_account_id, data))

\* Faulty variant: the account ids compared as the strings handed in
SameAccount_AsText(data) == data.source_account_id = data.destination_account_id

\* create_settlement: source_account_id == destination_account_id
SameAccount(data) == Uuid(data.source_account_id) = Uuid(data.destination_account_id)

create_settlement(data) ==
    /\ UNCHANGED <<positions, reservations, sess, journals, accounts, loans,
                   disbursements, repayments, schedule,
                   ledger_accounts, transfers>>
    /\ reply' = NoReply
    /\ IF Invalid(data, {"amount", "currency_code", "source_account_id",
                         "destination_account_id", "settlement_type"},
                  {"source_account_id", "destination_account_id"})
       THEN Refused("create_settlement", 0, "ValidationError")
       ELSE IF SameAccount(data)
       THEN Refused("create_settlement", 0,
                    "ValidationError: Source and destination accounts cannot be the same")
       ELSE Stored("create_settlement",
                   NewPayment("SETTLEMENT", Uuid(data.source_account_id),
                              Uuid(data.destination_account_id), data))

\* get_inbound_payment, get_outbound_payment, get_settlement
PaymentExists(payment_type, payment_id) ==
    /\ payment_id \in DOMAIN payments
    /\ payments[payment_id].payment_type = payment_type

\* Faulty variant: a payment under way may be started again
Startable_Again(status) == status \in {"PENDING", "PROCESSING"}

\* process_payment, execute_payment, execute_settlement: status != "PENDING"
\* is refused
Startable(status) == status = "PENDING"

\* process_payment, execute_payment, execute_settlement
Start(payment_type, op, already, payment_id, now) ==
    /\ UNCHANGED <<positions, reservations, sess, journals, accounts, loans,
                   disbursements, repayments, schedule,
                   ledger_accounts, transfers>>
    /\ reply' = NoReply
    /\ IF ~PaymentExists(payment_type, payment_id)
       THEN Refused(op, payment_id, "NotFoundError")
       ELSE IF ~Startable(payments[payment_id].status)
       THEN Refused(op, payment_id,
                    "ValidationError: " \o already \o " already " \o payments[payment_id].status)
       ELSE /\ payments' = [payments EXCEPT ![payment_id].status = "PROCESSING",
                                            ![payment_id].processed_at = now]
            /\ last' = Outcome(op, payment_id, "ok")

process_payment(payment_id, now) == Start("INBOUND", "process_payment", "Payment", payment_id, now)
execute_payment(payment_id, now) == Start("OUTBOUND", "execute_payment", "Payment", payment_id, now)
execute_settlement(settlement_id, now) ==
    Start("SETTLEMENT", "execute_settlement", "Settlement", settlement_id, now)

\* complete_payment (inbound and outbound), complete_settlement and
\* verify_payment: the status is set whatever it was
Mark(payment_type, op, payment_id, status) ==
    /\ UNCHANGED <<positions, reservations, sess, journals, accounts, loans,
                   disbursements, repayments, schedule,
                   ledger_accounts, transfers>>
    /\ reply' = NoReply
    /\ IF ~PaymentExists(payment_type, payment_id)
       THEN Refused(op, payment_id, "NotFoundError")
       ELSE /\ payments' = [payments EXCEPT ![payment_id].status = status]
            /\ last' = Outcome(op, payment_id, "ok")

inbound_complete_payment(payment_id) ==
    Mark("INBOUND", "inbound.complete_payment", payment_id, "COMPLETED")
outbound_complete_payment(payment_id) ==
    Mark("OUTBOUND", "outbound.complete_payment", payment_id, "COMPLETED")
complete_settlement(settlement_id) ==
    Mark("SETTLEMENT", "complete_settlement", settlement_id, "COMPLETED")
verify_payment(payment_id) == Mark("INBOUND", "verify_payment", payment_id, "VERIFIED")

\* Faulty variant: the reason replaces the notes
FailureNotes_Overwriting(notes, error_message) == <<"Failed: " \o error_message>>

\* fail_payment, fail_settlement: f"{payment.notes or ''}\nFailed: {error_message}"
FailureNotes(notes, error_message) == Annotated(notes, "Failed", error_message)

\* fail_payment (inbound and outbound), fail_settlement
Fail(payment_type, op, payment_id, error_message) ==
    /\ UNCHANGED <<positions, reservations, sess, journals, accounts, loans,
                   disbursements, repayments, schedule,
                   ledger_accounts, transfers>>
    /\ reply' = NoReply
    /\ IF ~PaymentExists(payment_type, payment_id)
       THEN Refused(op, payment_id, "NotFoundError")
       ELSE /\ Len(payments[payment_id].notes) < MaxNotes
            /\ payments' = [payments EXCEPT
                               ![payment_id].status = "FAILED",
                               ![payment_id].notes = FailureNotes(@, error_message)]
            /\ last' = Outcome(op, payment_id, "ok")

inbound_fail_payment(payment_id, error_message) ==
    Fail("INBOUND", "inbound.fail_payment", payment_id, error_message)
outbound_fail_payment(payment_id, error_message) ==
    Fail("OUTBOUND", "outbound.fail_payment", payment_id, error_message)
fail_settlement(settlement_id, error_message) ==
    Fail("SETTLEMENT", "fail_settlement", settlement_id, error_message)

\* Faulty variant: a completed payment may be cancelled too
Cancellable_Completed(status) == status \in {"PENDING", "PROCESSING", "COMPLETED"}

\* cancel_payment: status not in ["PENDING", "PROCESSING"] is refused
Cancellable(status) == status \in {"PENDING", "PROCESSING"}

cancel_payment(payment_id) ==
    /\ UNCHANGED <<positions, reservations, sess, journals, accounts, loans,
                   disbursements, repayments, schedule,
                   ledger_accounts, transfers>>
    /\ reply' = NoReply
    /\ IF ~PaymentExists("OUTBOUND", payment_id)
       THEN Refused("cancel_payment", payment_id, "NotFoundError")
       ELSE IF ~Cancellable(payments[payment_id].status)
       THEN Refused("cancel_payment", payment_id,
                    "ValidationError: Cannot cancel payment with status "
                        \o payments[payment_id].status)
       ELSE /\ payments' = [payments EXCEPT ![payment_id].status = "CANCELLED"]
            /\ last' = Outcome("cancel_payment", payment_id, "ok")

reverse_settlement(settlement_id, reason) ==
    /\ UNCHANGED <<positions, reservations, sess, journals, accounts, loans,
                   disbursements, repayments, schedule,
                   ledger_accounts, transfers>>
    /\ reply' = NoReply
    /\ IF ~PaymentExists("SETTLEMENT", settlement_id)
       THEN Refused("reverse_settlement", settlement_id, "NotFoundError")
       ELSE IF payments[settlement_id].status # "COMPLETED"
       THEN Refused("reverse_settlement", settlement_id,
                    "ValidationError: Can only reverse COMPLETED settlements")
       ELSE /\ Len(payments[settlement_id].notes) < MaxNotes
            /\ payments' = [payments EXCEPT
                               ![settlement_id].status = "REVERSED",
                               ![settlement_id].notes = Annotated(@, "Reversed", reason)]
            /\ last' = Outcome("reverse_settlement", settlement_id, "ok")

\* The payments of the model: an inbound payment into bbbb, an outbound one
\* out of aaaa and settlements out of an account named in either case, all
\* handled at one instant of the clock.  Every handler reads and writes the
\* one row it looks up, so a run follows payments of one type (OnlyOf); the
\* handlers of the other two providers are called on them all the same.
\* The reversal of a settlement is followed in SpecSettlement.
AccountTexts == {"aaaa", "AAAA", "bbbb", "zzzz"}
InboundInputs ==
    {[amount |-> 100, destination_account_id |-> d, notes |-> n, missing |-> m] :
        d \in {"bbbb", "zzzz"}, n \in NoteInputs, m \in {{}, {"provider_type"}}}
OutboundInputs ==
    {[amount |-> 100, source_account_id |-> a, destination_account_id |-> NoAccount,
      notes |-> None, missing |-> m] :
        a \in {"aaaa", "zzzz"}, m \in {{}, {"provider_type"}}}
SettlementInputs ==
    {[amount |-> 100, source_account_id |-> a, destination_account_id |-> d,
      notes |-> None, missing |-> m] :
        a \in AccountTexts, d \in {"aaaa", "bbbb"}, m \in {{}, {"settlement_type"}}}

PaymentClock == {4}
OnlyOf(payment_type) ==
    \A i \in DOMAIN payments : payments[i].payment_type = payment_type

InitPayment ==
    /\ positions = <<>>
    /\ reservations = <<>>
    /\ last = Outcome("none", 0, "ok")
    /\ sess = [p \in Procs |-> Idle]
    /\ journals = <<>>
    /\ accounts = ChartOfAccounts
    /\ loans = <<>>
    /\ reply = NoReply
    /\ disbursements = <<>>
    /\ repayments = <<>>
    /\ payments = <<>>
    /\ schedule = <<>>
    /\ ledger_accounts = <<>>
    /\ transfers = <<>>

NextPayment ==
    \/ \E data \in InboundInputs : OnlyOf("INBOUND") /\ create_inbound_payment(data)
    \/ \E data \in OutboundInputs : OnlyOf("OUTBOUND") /\ create_outbound_payment(data)
    \/ \E data \in SettlementInputs : OnlyOf("SETTLEMENT") /\ create_settlement(data)
    \/ \E id \in 1..MaxPayments, now \in Clock :
          \/ process_payment(id, now)
          \/ execute_payment(id, now)
          \/ execute_settlement(id, now)
    \/ \E id \in 1..MaxPayments :
          \/ inbound_complete_payment(id)
          \/ outbound_complete_payment(id)
          \/ complete_settlement(id)
          \/ verify_payment(id)
          \/ cancel_payment(id)
    \/ \E id \in 1..MaxPayments, reason \in Reasons :
          \/ inbound_fail_payment(id, reason)
          \/ outbound_fail_payment(id, reason)
          \/ fail_settlement(id, reason)

SpecPayment == InitPayment /\ [][NextPayment]_vars

\* The settlements alone, with their reversal
NextSettlement ==
    \/ \E data \in SettlementInputs : create_settlement(data)
    \/ \E id \in 1..MaxPayments, now \in PaymentClock : execute_settlement(id, now)
    \/ \E id \in 1..MaxPayments : complete_settlement(id)
    \/ \E id \in 1..MaxPayments, reason \in Reasons :
          \/ fail_settlement(id, reason)
          \/ reverse_settlement(id, reason)

SpecSettlement == InitPayment /\ [][NextSettlement]_vars

\* ------------------------------------------------ construction of postings
\* Posting(...): the dataclass stores its fields and __post_init__ raises
\* DomainError unless the three tests pass, in which case no object is left.
Posting(debit, credit, amount, ccy, ts) ==
    LET p == NewPosting(debit, credit, amount, ccy, ts)
    IN  IF ValidPosting(p)
        THEN Reply("Posting", <<debit, credit, amount, ccy>>, "ok", p)
        ELSE Reply("Posting", <<debit, credit, amount, ccy>>, "DomainError", <<>>)

Construct(debit, credit, amount, ccy, ts) ==
    /\ UNCHANGED <<positions, reservations, last, sess, journals, accounts, loans,
                   disbursements, repayments, payments, schedule,
                   ledger_accounts, transfers>>
    /\ reply' = Posting(debit, credit, amount, ccy, ts)

\* Posting.from_schema: the fields of a validated PostingCreate are handed to
\* the constructor
from_schema(schema) ==
    /\ UNCHANGED <<positions, reservations, last, sess, journals, accounts, loans,
                   disbursements, repayments, payments, schedule,
                   ledger_accounts, transfers>>
    /\ reply' = [Posting(schema.debit_account_id, schema.credit_account_id,
                         schema.amount, schema.currency, schema.timestamp)
                    EXCEPT !.op = "from_schema"]

\* Amounts in hundredths and currency texts handed to the constructor, and
\* the PostingCreate schemas that pass validation (amount > 0, three letters)
AmountInputs == {-100, 0, 1, 250}
CurrencyInputs == {"USD", "ZMW", "US", ""}
PostingCreate ==
    [debit_account_id : AccountIds, credit_account_id : AccountIds,
     amount : {a \in AmountInputs : a > 0},
     currency : {c \in CurrencyInputs : Len(c) = 3}, timestamp : Clock]

NextPosting ==
    \/ \E debit \in AccountIds, credit \in AccountIds, amount \in AmountInputs,
          ccy \in CurrencyInputs, ts \in Clock : Construct(debit, credit, amount, ccy, ts)
    \/ \E schema \in PostingCreate : from_schema(schema)

SpecPosting == InitPayment /\ [][NextPosting]_vars

\* ------------------------------------------------------ repayment schedule
\* round(x, 2) as a decimal of two places: a sign and a whole number of
\* hundredths (the float that is stored is the one nearest to it)
Round2(x) == [s |-> IF Hundredths(x) = <<>> THEN 1 ELSE x.s, c |-> Hundredths(x)]

\* Loan: the columns the schedule is computed from
ScheduledLoan(principal, rate, term) ==
    [status |-> "PENDING", principal_amount |-> principal, interest_rate |-> rate,
     term_months |-> term]

\* _calculate_installments: monthly_rate = (annual_rate / 100) / 12
MonthlyRate(annual_rate) == FltDiv(FltDiv(annual_rate, FltInt(100)), FltInt(12))

\* (1 + monthly_rate) ** term_months, the power of the C library taken as
\* correctly rounded
Growth(monthly_rate, term_months) == FltPow(FltAdd(FltInt(1), monthly_rate), term_months)

\* float division by 0.0 raises
DivisionFails(monthly_rate, term_months) ==
    /\ monthly_rate # FltZero
    /\ FltSub(Growth(monthly_rate, term_months), FltInt(1)) = FltZero

MonthlyPayment_Undivided(principal, monthly_rate, term_months) ==
    IF monthly_rate = FltZero
    THEN principal
    ELSE LET numerator == FltMul(monthly_rate, Growth(monthly_rate, term_months))
             denominator == FltSub(Growth(monthly_rate, term_months), FltInt(1))
         IN  FltMul(principal, FltDiv(numerator, denominator))

\* _calculate_installments: the monthly payment
MonthlyPayment(principal, monthly_rate, term_months) ==
    IF monthly_rate = FltZero
    THEN FltDiv(principal, FltInt(term_months))
    ELSE LET numerator == FltMul(monthly_rate, Growth(monthly_rate, term_months))
             denominator == FltSub(Growth(monthly_rate, term_months), FltInt(1))
         IN  FltMul(principal, FltDiv(numerator, denominator))

\* A date of the schedule: the day d of the month m, months counted from
\* January of a common year
Date(m, d) == [m |-> m, d |-> d]
DaysIn(m) ==
    LET k == ((m - 1) % 12) + 1
    IN  IF k = 2 THEN 28 ELSE IF k \in {4, 6, 9, 11} THEN 30 ELSE 31

\* date + relativedelta(months=k): the same day k months later, or the last
\* day of that month when the month is shorter
PlusMonths(date, k) ==
    Date(date.m + k, IF date.d > DaysIn(date.m + k) THEN DaysIn(date.m + k) ELSE date.d)

\* _calculate_installments: the loop, from installment i on
RECURSIVE Installments(_, _, _, _, _, _, _)
Installments(loan_id, i, term_months, remaining_principal, monthly_rate, monthly_payment, current_date) ==
    IF i > term_months THEN <<>>
    ELSE LET interest_due == FltMul(remaining_principal, monthly_rate)
             principal_due == FltSub(monthly_payment, interest_due)
         IN  <<[loan_id |-> loan_id, installment_number |-> i,
                due_date |-> current_date,
                principal_due |-> Round2(principal_due),
                interest_due |-> Round2(interest_due),
                total_due |-> Round2(monthly_payment), status |-> "PENDING"]>>
             \o Installments(loan_id, i + 1, term_months,
                             FltSub(remaining_principal, principal_due), monthly_rate,
                             monthly_payment, PlusMonths(current_date, 1))

_calculate_installments(loan_id, principal, annual_rate, term_months, start_date) ==
    Installments(loan_id, 1, term_months, principal, MonthlyRate(annual_rate),
                 MonthlyPayment(principal, MonthlyRate(annual_rate), term_months),
                 start_date)

\* generate_schedule: require() on the three fields, the loan, the
\* installments, one row added for each, commit.  due dates count months.
generate_schedule(data) ==
    /\ UNCHANGED <<positions, reservations, sess, journals, accounts, loans,
                   disbursements, repayments, payments,
                   ledger_accounts, transfers>>
    /\ reply' = NoReply
    /\ Len(schedule) < MaxTerm
    /\ IF Missing(data, {"loan_id", "start_date", "frequency"})
       THEN /\ last' = Outcome("generate_schedule", data.loan_id, "ValidationError")
            /\ UNCHANGED schedule
       ELSE IF ~LoanExists(data.loan_id)
       THEN /\ last' = Outcome("generate_schedule", data.loan_id, "NotFoundError")
            /\ UNCHANGED schedule
       ELSE LET loan == loans[data.loan_id]
            IN  IF DivisionFails(MonthlyRate(loan.interest_rate), loan.term_months)
                THEN /\ last' = Outcome("generate_schedule", data.loan_id,
                                        "ZeroDivisionError")
                     /\ UNCHANGED schedule
                ELSE /\ schedule' =
                           schedule \o
                           _calculate_installments(data.loan_id, loan.principal_amount,
                                                   loan.interest_rate, loan.term_months,
                                                   data.start_date)
                     /\ last' = Outcome("generate_schedule", data.loan_id, "ok")

\* The loans a schedule is generated for: principals of c * 10^z hundredths
\* (1.00, 1,000.00 and 5,000,000,000.00), annual rates of c * 10^-k percent
\* (0, 0.01, 7.5, 12, 100, and the positive rates 1e-12 and 1e-15), terms of
\* 1 to MaxTerm months.
PrincipalInputs == {<<1, 2>>, <<1, 5>>, <<5, 11>>}
RateInputs == {<<0, 0>>, <<1, 2>>, <<75, 1>>, <<12, 0>>, <<100, 0>>, <<1, 12>>, <<1, 15>>}
PrincipalCents(p) == NMul(Nat2(p[1]), NPow(Nat2(10), p[2]))
Principal(p) == FltRatio(PrincipalCents(p), Nat2(100))
Rate(r) == IF r[1] = 0 THEN FltZero ELSE FltDec(r[1], r[2])
StartDates == {Date(1, 15), Date(1, 31)}
ScheduleInputs ==
    {[loan_id |-> l, start_date |-> d, missing |-> {}] : l \in 1..2, d \in StartDates}
    \cup {[loan_id |-> 1, start_date |-> Date(1, 15), missing |-> {"frequency"}]}

InitSchedule ==
    /\ positions = <<>>
    /\ reservations = <<>>
    /\ last = Outcome("create_loan", 1, "ok")
    /\ sess = [p \in Procs |-> Idle]
    /\ journals = <<>>
    /\ accounts = ChartOfAccounts
    /\ \E p \in PrincipalInputs, r \in RateInputs, n \in 1..MaxTerm :
          loans = <<ScheduledLoan(Principal(p), Rate(r), n)>>
    /\ reply = NoReply
    /\ disbursements = <<>>
    /\ repayments = <<>>
    /\ payments = <<>>
    /\ schedule = <<>>
    /\ ledger_accounts = <<>>
    /\ transfers = <<>>

NextSchedule == \E data \in ScheduleInputs : generate_schedule(data)

SpecSchedule == InitSchedule /\ [][NextSchedule]_vars

\* ------------------------------------------------- accounts and the chart
\* In the specification of this section the variable accounts is the
\* chartaccount table in insertion order with the columns the provider
\* writes; a row's place is its id (uuid4 at creation).  An update is two
\* steps of a session: the row is read and changed in memory, then
\* committed; sessions of different callers interleave between the two.
\* The two tables are independent: a behaviour works on one of them.
NoParent == 0

\* code.upper(), on the codes of the model
Upper(code) == IF code = "cash" THEN "CASH" ELSE code

\* session.get(ChartAccount, id)
ChartAccountExists(id) == id \in DOMAIN accounts

\* select(ChartAccount).where(ChartAccount.code == ...).first()
CodeTaken(code) == \E i \in DOMAIN accounts : accounts[i].code = code

NewChartAccount(account_in) ==
    [id |-> Len(accounts) + 1, code |-> Upper(account_in.code),
     name |-> account_in.name, parent_account_id |-> account_in.parent_account_id,
     version |-> 1]

\* create_chart_account: the code must be new, a parent that is given must
\* exist
create_chart_account(account_in) ==
    /\ Len(accounts) < MaxAccounts
    /\ ledger_accounts = <<>>
    /\ UNCHANGED <<positions, reservations, sess, journals, loans, disbursements,
                   repayments, payments, schedule, ledger_accounts, transfers>>
    /\ reply' = NoReply
    /\ IF CodeTaken(Upper(account_in.code))
       THEN /\ last' = Outcome("create_chart_account", 0, "ValidationError: exists")
            /\ UNCHANGED accounts
       ELSE IF /\ account_in.parent_account_id # NoParent
               /\ ~ChartAccountExists(account_in.parent_account_id)
       THEN /\ last' = Outcome("create_chart_account", 0, "ValidationError: parent")
            /\ UNCHANGED accounts
       ELSE /\ accounts' = Append(accounts, NewChartAccount(account_in))
            /\ last' = Outcome("create_chart_account", Len(accounts) + 1, "ok")

\* for key, value in updates.items(): setattr(account, key, value), then
\* account.version += 1
Updated(account, updates) ==
    [account EXCEPT
        !.name = IF "name" \in updates.keys THEN updates.name ELSE @,
        !.parent_account_id = IF "parent_account_id" \in updates.keys
                              THEN updates.parent_account_id ELSE @,
        !.version = @ + 1]

\* update_chart_account by one caller at a time: the row is read, a parent
\* that is given must exist, the fields and the version are set and written
update_chart_account(account_id, updates) ==
    /\ UNCHANGED <<positions, reservations, sess, journals, loans, disbursements,
                   repayments, payments, schedule, ledger_accounts, transfers>>
    /\ reply' = NoReply
    /\ IF ~ChartAccountExists(account_id)
       THEN /\ last' = Outcome("update_chart_account", account_id, "NotFoundError")
            /\ UNCHANGED accounts
       ELSE IF /\ "parent_account_id" \in updates.keys
               /\ updates.parent_account_id # NoParent
               /\ ~ChartAccountExists(updates.parent_account_id)
       THEN /\ last' = Outcome("update_chart_account", account_id,
                               "ValidationError: parent")
            /\ UNCHANGED accounts
       ELSE /\ accounts[account_id].version < MaxVersion
            /\ accounts' = [accounts EXCEPT ![account_id] = Updated(@, updates)]
            /\ last' = Outcome("update_chart_account", account_id, "ok")

\* update_chart_account up to session.add, in the session of caller p
ChartUpdateLoad(p, account_id, updates) ==
    /\ CanStart(p)
    /\ UNCHANGED <<positions, reservations, journals, accounts, loans, disbursements,
                   repayments, payments, schedule, ledger_accounts, transfers>>
    /\ reply' = NoReply
    /\ IF ~ChartAccountExists(account_id)
       THEN /\ last' = Outcome("update_chart_account", account_id, "NotFoundError")
            /\ UNCHANGED sess
       ELSE IF /\ "parent_account_id" \in updates.keys
               /\ updates.parent_account_id # NoParent
               /\ ~ChartAccountExists(updates.parent_account_id)
       THEN /\ last' = Outcome("update_chart_account", account_id,
                               "ValidationError: parent")
            /\ UNCHANGED sess
       ELSE /\ accounts[account_id].version < MaxVersion
            /\ UNCHANGED last
            /\ sess' = [sess EXCEPT ![p] =
                   [pc |-> "loaded", op |-> "update_chart_account", id |-> account_id,
                    loaded |-> accounts[account_id],
                    object |-> Updated(accounts[account_id], updates)]]

\* session.commit(): the UPDATE writes the columns whose value on the object
\* differs from the value that was read
Flushed(row, loaded, object) ==
    [f \in DOMAIN row |-> IF object[f] # loaded[f] THEN object[f] ELSE row[f]]

ChartUpdateCommit(p) ==
    /\ sess[p].pc = "loaded"
    /\ sess[p].op = "update_chart_account"
    /\ UNCHANGED <<positions, reservations, journals, loans, disbursements,
                   repayments, payments, schedule, ledger_accounts, transfers>>
    /\ reply' = NoReply
    /\ accounts' = [accounts EXCEPT ![sess[p].id] =
                       Flushed(@, sess[p].loaded, sess[p].object)]
    /\ last' = Outcome("update_chart_account", sess[p].id, "ok")
    /\ sess' = [sess EXCEPT ![p] = Idle]

\* The account table: the columns create_account and update_account read and
\* write
LedgerAccountExists(id) == id \in DOMAIN ledger_accounts

\* create_account: the account_number must be new; version has its default
create_account(account_number) ==
    /\ Len(ledger_accounts) < MaxAccounts
    /\ accounts = <<>>
    /\ UNCHANGED <<positions, reservations, sess, journals, accounts, loans,
                   disbursements, repayments, payments, schedule, transfers>>
    /\ reply' = NoReply
    /\ IF \E i \in DOMAIN ledger_accounts :
             ledger_accounts[i].account_number = account_number
       THEN /\ last' = Outcome("create_account", 0, "ValueError: exists")
            /\ UNCHANGED ledger_accounts
       ELSE /\ ledger_accounts' =
                 Append(ledger_accounts,
                        [id |-> Len(ledger_accounts) + 1,
                         account_number |-> account_number, version |-> 1])
            /\ last' = Outcome("create_account", Len(ledger_accounts) + 1, "ok")

\* update_account up to session.add: get_account, then setattr for the keys
\* the account has (the fields of AccountUpdate, name and parent_account_id,
\* are no columns of the account table), then account.version += 1
AccountUpdateLoad(p, account_id) ==
    /\ CanStart(p)
    /\ UNCHANGED <<positions, reservations, journals, accounts, loans, disbursements,
                   repayments, payments, schedule, ledger_accounts, transfers>>
    /\ reply' = NoReply
    /\ IF ~LedgerAccountExists(account_id)
       THEN /\ last' = Outcome("update_account", account_id, "NotFoundError")
            /\ UNCHANGED sess
       ELSE /\ ledger_accounts[account_id].version < MaxVersion
            /\ UNCHANGED last
            /\ sess' = [sess EXCEPT ![p] =
                   [pc |-> "loaded", op |-> "update_account", id |-> account_id,
                    loaded |-> ledger_accounts[account_id],
                    object |-> [ledger_accounts[account_id] EXCEPT !.version = @ + 1]]]

AccountUpdateCommit(p) ==
    /\ sess[p].pc = "loaded"
    /\ sess[p].op = "update_account"
    /\ UNCHANGED <<positions, reservations, journals, accounts, loans, disbursements,
                   repayments, payments, schedule, transfers>>
    /\ reply' = NoReply
    /\ ledger_accounts' = [ledger_accounts EXCEPT ![sess[p].id] =
                              Flushed(@, sess[p].loaded, sess[p].object)]
    /\ last' = Outcome("update_account", sess[p].id, "ok")
    /\ sess' = [sess EXCEPT ![p] = Idle]

\* What the callers pass: two spellings of one code and another code, a
\* parent that is absent, stored or unknown; a new name or a new parent
ChartCodes == {"cash", "CASH", "BANK"}
ParentInputs == 0..(MaxAccounts + 1)
ChartCreates ==
    {[code |-> c, name |-> "Main", parent_account_id |-> q] :
        c \in ChartCodes, q \in ParentInputs}
ChartUpdates ==
    {[keys |-> {"name"}, name |-> "Cash", parent_account_id |-> NoParent]}
    \cup {[keys |-> {"parent_account_id"}, name |-> "", parent_account_id |-> q] :
            q \in ParentInputs}
AccountNumbers == {"001", "002"}

InitChart ==
    /\ positions = <<>>
    /\ reservations = <<>>
    /\ last = Outcome("none", 0, "ok")
    /\ sess = [p \in Procs |-> Idle]
    /\ journals = <<>>
    /\ accounts = <<>>
    /\ loans = <<>>
    /\ reply = NoReply
    /\ disbursements = <<>>
    /\ repayments = <<>>
    /\ payments = <<>>
    /\ schedule = <<>>
    /\ ledger_accounts = <<>>
    /\ transfers = <<>>

NextChart ==
    \/ \E account_in \in ChartCreates : create_chart_account(account_in)
    \/ \E id \in ParentInputs \ {NoParent}, updates \in ChartUpdates :
          update_chart_account(id, updates)

SpecChart == InitChart /\ [][NextChart]_vars

\* Callers running concurrently rename chart accounts, move them to the top
\* or under an unknown account, and update ledger accounts
ConcUpdates == {u \in ChartUpdates : u.parent_account_id \in {NoParent, MaxAccounts + 1}}

NextChartConc ==
    \/ \E account_in \in ChartCreates : create_chart_account(account_in)
    \/ \E p \in Procs, id \in ParentInputs \ {NoParent}, updates \in ConcUpdates :
          ChartUpdateLoad(p, id, updates)
    \/ \E p \in Procs : ChartUpdateCommit(p)
    \/ \E n \in AccountNumbers : create_account(n)
    \/ \E p \in Procs, id \in ParentInputs \ {NoParent} : AccountUpdateLoad(p, id)
    \/ \E p \in Procs : AccountUpdateCommit(p)

SpecChartConc == InitChart /\ [][NextChartConc]_vars

\* ------------------------------------------------------- funding transfers
\* A fundingtransfer row. from and to are the (provider, account_id) keys of the
\* two positions. moved is a history field, not a column: the number of times
\* the row's amount was taken from the source and put on the destination.
NoTransfer == 0

\* get_transfer: the index of the row with transfer_id, or NoTransfer
TransferIndex(transfer_id) ==
    IF \E i \in DOMAIN transfers : transfers[i].transfer_id = transfer_id
    THEN CHOOSE i \in DOMAIN transfers : transfers[i].transfer_id = transfer_id
    ELSE NoTransfer

\* create_transfer: the FundingTransfer row, amount stored in the float column
NewTransfer(transfer_in) ==
    [transfer_id |-> transfer_in.transfer_id, from |-> transfer_in.from,
     to |-> transfer_in.to, amount |-> ToFloat(transfer_in.amount),
     currency_code |-> transfer_in.currency_code, status |-> "PENDING",
     notes |-> "NULL", completed_at |-> "NULL", moved |-> 0]

\* create_transfer: checks the source, stores the intent, moves nothing
create_transfer(transfer_in) ==
    /\ UNCHANGED <<positions, reservations, sess, journals, accounts, loans, disbursements,
                   repayments, payments, schedule, ledger_accounts>>
    /\ reply' = NoReply
    /\ IF ~PositionExists(transfer_in.from)
       THEN /\ last' = Call("create_transfer", transfer_in.transfer_id, transfer_in.amount,
                            "ValidationError: position", NoBalances)
            /\ UNCHANGED transfers
       ELSE LET source == positions[transfer_in.from]
            IN  IF source.currency_code # transfer_in.currency_code
                THEN /\ last' = Call("create_transfer", transfer_in.transfer_id,
                                     transfer_in.amount, "ValidationError: currency",
                                     Balances(source))
                     /\ UNCHANGED transfers
                ELSE IF FltLtDec(source.available_balance, transfer_in.amount)
                THEN /\ last' = Call("create_transfer", transfer_in.transfer_id,
                                     transfer_in.amount, "ValidationError: funds",
                                     Balances(source))
                     /\ UNCHANGED transfers
                ELSE IF TransferIndex(transfer_in.transfer_id) # NoTransfer
                THEN /\ last' = Call("create_transfer", transfer_in.transfer_id,
                                     transfer_in.amount, "IntegrityError", Balances(source))
                     /\ UNCHANGED transfers
                ELSE /\ Len(transfers) < MaxTransfers
                     /\ transfers' = Append(transfers, NewTransfer(transfer_in))
                     /\ last' = Call("create_transfer", transfer_in.transfer_id,
                                     transfer_in.amount, "ok", Balances(source))

\* complete_transfer: deduct from source
Deducted(p, amount) ==
    [p EXCEPT !.total_balance = FSub(@, amount), !.available_balance = FSub(@, amount)]

\* complete_transfer: add to destination
Added(p, amount) ==
    [p EXCEPT !.total_balance = FAdd(@, amount), !.available_balance = FAdd(@, amount)]

\* complete_transfer: both updates; source and destination are one object when
\* the keys are equal
Moved(pos, t) ==
    LET deducted == [pos EXCEPT ![t.from] = Deducted(@, t.amount)]
    IN  [deducted EXCEPT ![t.to] = Added(@, t.amount)]

complete_transfer(transfer_id) ==
    LET i == TransferIndex(transfer_id)
    IN  /\ UNCHANGED <<reservations, sess, journals, accounts, loans, disbursements,
                       repayments, payments, schedule, ledger_accounts>>
        /\ reply' = NoReply
        /\ IF i = NoTransfer
           THEN /\ last' = Call("complete_transfer", transfer_id, 0, "NotFoundError", NoBalances)
                /\ UNCHANGED <<positions, transfers>>
           ELSE IF transfers[i].status # "PENDING"
           THEN /\ last' = Call("complete_transfer", transfer_id, 0, "ValidationError: status",
                                NoBalances)
                /\ UNCHANGED <<positions, transfers>>
           ELSE IF ~PositionExists(transfers[i].from) \/ ~PositionExists(transfers[i].to)
           THEN /\ last' = Call("complete_transfer", transfer_id, 0,
                                "ValidationError: position", NoBalances)
                /\ UNCHANGED <<positions, transfers>>
           ELSE /\ positions' = Moved(positions, transfers[i])
                /\ transfers' = [transfers EXCEPT ![i].status = "COMPLETED",
                                                  ![i].completed_at = "SET",
                                                  ![i].moved = @ + 1]
                /\ last' = Call("complete_transfer", transfer_id, 0, "ok",
                                Balances(positions[transfers[i].from]))

\* fail_transfer: no test of the status
fail_transfer(transfer_id) ==
    LET i == TransferIndex(transfer_id)
    IN  /\ UNCHANGED <<positions, reservations, sess, journals, accounts, loans, disbursements,
                       repayments, payments, schedule, ledger_accounts>>
        /\ reply' = NoReply
        /\ IF i = NoTransfer
           THEN /\ last' = Call("fail_transfer", transfer_id, 0, "NotFoundError", NoBalances)
                /\ UNCHANGED transfers
           ELSE /\ transfers' = [transfers EXCEPT ![i].status = "FAILED",
                                                  ![i].notes = "reason",
                                                  ![i].completed_at = "SET"]
                /\ last' = Call("fail_transfer", transfer_id, 0, "ok", NoBalances)

cancel_transfer(transfer_id) ==
    LET i == TransferIndex(transfer_id)
    IN  /\ UNCHANGED <<positions, reservations, sess, journals, accounts, loans, disbursements,
                       repayments, payments, schedule, ledger_accounts>>
        /\ reply' = NoReply
        /\ IF i = NoTransfer
           THEN /\ last' = Call("cancel_transfer", transfer_id, 0, "NotFoundError", NoBalances)
                /\ UNCHANGED transfers
           ELSE IF transfers[i].status # "PENDING"
           THEN /\ last' = Call("cancel_transfer", transfer_id, 0, "ValidationError: status",
                                NoBalances)
                /\ UNCHANGED transfers
           ELSE /\ transfers' = [transfers EXCEPT ![i].status = "CANCELLED",
                                                  ![i].completed_at = "SET"]
                /\ last' = Call("cancel_transfer", transfer_id, 0, "ok", NoBalances)

TransferIds == {"T1", "T2"}

\* Transfers out of the MTN float and back, one to a position that is not
\* stored, one in the wrong currency.
TransferInputs ==
    {[transfer_id |-> t, from |-> "MTN:001", to |-> "BANK:001", amount |-> c,
      currency_code |-> "ZMW"] : t \in TransferIds, c \in {2, 4}}
    \cup {[transfer_id |-> "T2", from |-> "BANK:001", to |-> k, amount |-> 4,
           currency_code |-> "ZMW"] : k \in {"MTN:001", NoKey}}
    \cup {[transfer_id |-> "T2", from |-> k, to |-> "BANK:001", amount |-> 4,
           currency_code |-> "USD"] : k \in {"MTN:001", NoKey}}

NextFunding ==
    \/ \E transfer_in \in TransferInputs : create_transfer(transfer_in)
    \/ \E t \in TransferIds : complete_transfer(t)
    \/ \E t \in TransferIds : fail_transfer(t)
    \/ \E t \in TransferIds : cancel_transfer(t)
    \/ \E c \in {2, 4} : reserve_funds("MTN:001", c)

SpecFunding == InitTreasury /\ [][NextFunding]_vars

\* ------------------------------------------- the ledger as journals are added
\* Journals of one or two valid postings between the accounts of the chart,
\* stored one after another, the balance of an account computed in between.
\* The chart's third account is kept in USD or in ZMW; one posting is in ZMW.
ConservationPostings ==
    {NewPosting("A", "B", a, "USD", 1) : a \in {1, 2}}
    \cup {NewPosting("B", "C", 1, "USD", 1), NewPosting("B", "A", 2, "USD", 1),
          NewPosting("B", "C", 1, "ZMW", 1)}
ConservationJournals ==
    {JournalRow(ref, 0, 0, <<p>>) : ref \in References \cup {"JRN-3"}, p \in ConservationPostings}
    \cup {JournalRow("JRN-1", 0, 0, <<NewPosting("A", "B", 2, "USD", 1), p>>) :
             p \in {NewPosting("B", "A", 2, "USD", 1), NewPosting("B", "C", 1, "USD", 1)}}

InitConservation == InitLedger /\ journals = <<>>

NextConservation ==
    \/ \E j \in ConservationJournals : create_journal(j)
    \/ \E id \in AccountIds : account_balance(id, NoCurrency)

SpecConservation == InitConservation /\ [][NextConservation]_vars

\* ================================================================ claims
Negative(x) == x[1] < 0
\* The decimals n/100 a balance of the model can stand for.
Cents == 0..16
ActiveOn(k) == {i \in DOMAIN reservations :
                   reservations[i].key = k /\ reservations[i].status = "ACTIVE"}

\* C1: after any sequence of reserve_funds, release_reservation and
\* confirm_reservation calls on a position that started with
\* total = available + reserved, total_balance = available_balance +
\* reserved_balance (the sum as the program's own float addition gives it).
C1_TotalIsAvailablePlusReserved ==
    \A k \in DOMAIN positions :
        positions[k].total_balance =
            FAdd(positions[k].available_balance, positions[k].reserved_balance)

\* C2: two reserve_funds calls that run concurrently against one position,
\* each for at most the available balance they observed and together for more
\* than it, do not both succeed.
C2_NoDoubleReserve ==
    \A p \in Procs, q \in Procs :
        ( /\ p # q
          /\ sess[p].pc = "done" /\ sess[p].result = "ok"
          /\ sess[q].pc = "done" /\ sess[q].result = "ok"
          /\ sess[p].key = sess[q].key
          /\ sess[p].snap = sess[q].snap )
        => ~XLt(sess[p].snap[2], XAdd(ToFloat(sess[p].amt), ToFloat(sess[q].amt)))

\* C3: a successful reserve_funds of amount a lowers available_balance by
\* exactly a, raises reserved_balance by exactly a, leaves total_balance as it
\* was, and adds exactly one ACTIVE reservation of amount a on that position,
\* in the same commit.  "By exactly a", for balances held as floats: when the
\* balance before is the float of the decimal n/100, the balance after is the
\* float of the decimal n/100 - a (n/100 + a for the reserved balance).
C3_ReserveMovesExactlyAmount ==
    [][ (last'.op = "reserve_funds" /\ last'.result = "ok") =>
        LET k == last'.arg
            c == last'.amt
        IN  /\ \A n \in Cents :
                  (n >= c /\ positions[k].available_balance = ToFloat(n)) =>
                      positions'[k].available_balance = ToFloat(n - c)
            /\ \A n \in Cents :
                  positions[k].reserved_balance = ToFloat(n) =>
                      positions'[k].reserved_balance = ToFloat(n + c)
            /\ positions'[k].total_balance = positions[k].total_balance
            /\ Len(reservations') = Len(reservations) + 1
            /\ SubSeq(reservations', 1, Len(reservations)) = reservations
            /\ reservations'[Len(reservations')].status = "ACTIVE"
            /\ reservations'[Len(reservations')].amount = ToFloat(c)
            /\ reservations'[Len(reservations')].key = k
            /\ \A j \in DOMAIN positions \ {k} : positions'[j] = positions[j]
      ]_vars

\* C4: reserve_funds fails with the insufficient-funds error whenever
\* available_balance < amount, and then leaves the three balances and the
\* reservations as they were; with the whole available balance reserved
\* (available_balance = 0) every further reserve fails.
C4_InsufficientFundsRejected ==
    [][ (last'.op = "reserve_funds" /\ PositionExists(last'.arg)) =>
        LET k == last'.arg
            c == last'.amt
        IN  /\ FltLtDec(positions[k].available_balance, c) =>
                  /\ last'.result = "ValidationError"
                  /\ positions' = positions
                  /\ reservations' = reservations
            /\ positions[k].available_balance = Zero =>
                  last'.result = "ValidationError"
            /\ last'.result = "ValidationError" =>
                  /\ positions' = positions
                  /\ reservations' = reservations
      ]_vars

\* C4 witness: the whole balance of a position is held by one ACTIVE
\* reservation and a further reserve_funds on it has just been refused.
C4_Witness ==
    /\ last.op = "reserve_funds"
    /\ last.result = "ValidationError"
    /\ PositionExists(last.arg)
    /\ positions[last.arg].available_balance = Zero
    /\ \E i \in ActiveOn(last.arg) :
          reservations[i].amount = positions[last.arg].total_balance

\* C5: available_balance >= 0 and reserved_balance >= 0 after any sequence of
\* reserve_funds, release_reservation and confirm_reservation calls with
\* positive amounts on a position that started non-negative with no
\* reservations.
C5_BalancesNonNegative ==
    \A k \in DOMAIN positions :
        /\ ~Negative(positions[k].available_balance)
        /\ ~Negative(positions[k].reserved_balance)

\* C6: a reservation is terminal once RELEASED or CONFIRMED: release and
\* confirm succeed only on an ACTIVE reservation; on a RELEASED or CONFIRMED
\* one they fail (not active) and leave the reservation and the position's
\* balances as they were, so no step changes a terminal reservation.
C6_TerminalReservation ==
    [][ /\ (/\ last'.op \in {"release_reservation", "confirm_reservation"}
            /\ last'.arg \in DOMAIN reservations) =>
              LET r == reservations[last'.arg] IN
              /\ last'.result = "ok" => r.status = "ACTIVE"
              /\ r.status \in {"RELEASED", "CONFIRMED"} =>
                    /\ last'.result = "ValidationError"
                    /\ reservations' = reservations
                    /\ positions' = positions
        /\ \A i \in DOMAIN reservations :
              reservations[i].status \in {"RELEASED", "CONFIRMED"} =>
                  /\ i \in DOMAIN reservations'
                  /\ reservations'[i] = reservations[i]
      ]_vars

\* C6 witness: a release or confirm has just been refused on a reservation
\* that is RELEASED or CONFIRMED.
C6_Witness ==
    /\ last.op \in {"release_reservation", "confirm_reservation"}
    /\ last.result = "ValidationError"
    /\ last.arg \in DOMAIN reservations
    /\ reservations[last.arg].status \in {"RELEASED", "CONFIRMED"}

\* C7: round trip: reserve_funds followed by release_reservation of that
\* reservation restores total_balance, available_balance and reserved_balance
\* to the values they had before the reservation, and the reservation is
\* RELEASED with released_at stamped.
C7_ReserveReleaseRoundTrip ==
    [][ ( /\ last.op = "reserve_funds" /\ last.result = "ok"
          /\ last'.op = "release_reservation" /\ last'.result = "ok"
          /\ last'.arg = Len(reservations) ) =>
        /\ Balances(positions'[last.arg]) = last.pre
        /\ reservations'[last'.arg].status = "RELEASED"
        /\ reservations'[last'.arg].released_at = "SET"
      ]_vars

\* C8: confirming an ACTIVE reservation of amount a lowers reserved_balance
\* and total_balance by a, leaves available_balance as it was and sets the
\* reservation CONFIRMED.  "By a", for balances held as floats: when the
\* balance before is the float of the decimal n/100 and the amount the float
\* of c/100, the balance after is the float of the decimal (n - c)/100.
C8_ConfirmMovesExactlyAmount ==
    [][ (last'.op = "confirm_reservation" /\ last'.result = "ok") =>
        LET r == reservations[last'.arg]
            k == r.key
        IN  /\ \A n \in Cents, c \in AmountCents :
                  (n >= c /\ positions[k].reserved_balance = ToFloat(n) /\ r.amount = ToFloat(c)) =>
                      positions'[k].reserved_balance = ToFloat(n - c)
            /\ \A n \in Cents, c \in AmountCents :
                  (n >= c /\ positions[k].total_balance = ToFloat(n) /\ r.amount = ToFloat(c)) =>
                      positions'[k].total_balance = ToFloat(n - c)
            /\ positions'[k].available_balance = positions[k].available_balance
            /\ reservations'[last'.arg].status = "CONFIRMED"
      ]_vars

\* C9: create_cash_position and update_balance commit only balance triples
\* with total = available + reserved and available, reserved >= 0: every
\* stored position satisfies the balance invariant.
C9_StoredPositionsBalanced ==
    \A k \in DOMAIN positions :
        /\ positions[k].total_balance =
              FAdd(positions[k].available_balance, positions[k].reserved_balance)
        /\ ~Negative(positions[k].available_balance)
        /\ ~Negative(positions[k].reserved_balance)

\* C10: of two concurrent create_journal calls with one reference, one
\* succeeds and the other fails with the duplicate-reference error
\* (ValueError "already exists"), never with any other outcome, and no two
\* stored journals share a reference.
C10_LoserGetsDuplicateReference ==
    /\ \A i \in DOMAIN journals, j \in DOMAIN journals :
          journals[i].reference = journals[j].reference => i = j
    /\ \A p \in Procs :
          (sess[p].pc = "done" /\ sess[p].result # "ok") =>
              sess[p].result = "ValueError: already exists"

\* C11: create_journal with a reference already used by a stored journal fails
\* with the duplicate-reference error (ValueError "already exists") and stores
\* nothing; in every state reached by sequential create_journal calls no two
\* journals share a reference, and a step never changes a stored journal.
C11_SequentialDuplicateRejected ==
    [][ last'.op = "create_journal" =>
        /\ (\E i \in DOMAIN journals : journals[i].reference = last'.arg) =>
              /\ last'.result = "ValueError: already exists"
              /\ journals' = journals
        /\ \A i \in DOMAIN journals' , j \in DOMAIN journals' :
              journals'[i].reference = journals'[j].reference => i = j
        /\ Len(journals') >= Len(journals)
        /\ SubSeq(journals', 1, Len(journals)) = journals
      ]_vars

\* C11 witness: a create_journal has just been refused as a duplicate while a
\* journal with its reference and another journal are in the store.
C11_Witness ==
    /\ last.op = "create_journal"
    /\ last.result = "ValueError: already exists"
    /\ Len(journals) = MaxJournals
    /\ \E i \in DOMAIN journals : journals[i].reference = last.arg

\* C12: every journal accepted by journal creation has debit sum equal to
\* credit sum; a journal whose debits total 100.00 USD and whose credits total
\* 90.00 USD is rejected as unbalanced and not stored.
C12_StoredJournalsBalanced ==
    \A i \in DOMAIN journals : journals[i].total_debit = journals[i].total_credit

\* The sum of the amounts of the postings ps[i], i in I.
RECURSIVE SumAmounts(_, _)
SumAmounts(ps, I) ==
    IF I = {} THEN 0
    ELSE LET i == CHOOSE i \in I : TRUE
         IN  ps[i].money.amount + SumAmounts(ps, I \ {i})

RECURSIVE SumColumn(_, _)
SumColumn(items, side) ==
    IF items = <<>> THEN 0
    ELSE (IF side = "debit" THEN Head(items).debit ELSE Head(items).credit)
         + SumColumn(Tail(items), side)

Ledger == Postings(journals)
DebitsOf(ids) == {i \in DOMAIN Ledger : Ledger[i].debit_account_id \in ids}
CreditsOf(ids) == {i \in DOMAIN Ledger : Ledger[i].credit_account_id \in ids}
UpTo(as_of) == {i \in DOMAIN Ledger : as_of = NoTime \/ Ledger[i].timestamp <= as_of}
Before(t) == {i \in DOMAIN Ledger : Ledger[i].timestamp < t}
Within(s, e) == {i \in DOMAIN Ledger : s <= Ledger[i].timestamp /\ Ledger[i].timestamp <= e}
ChartIds == {accounts[i].id : i \in DOMAIN accounts}
\* The currencies of the accounts ids and of the postings I are all the same.
OneCurrency(ids, I) ==
    \A c \in {Account(id).currency_code : id \in ids}
             \cup {Ledger[i].money.currency : i \in I} :
       \A d \in {Account(id).currency_code : id \in ids}
             \cup {Ledger[i].money.currency : i \in I} : c = d

\* C13: TrialBalance.compute never silently passes with a mismatch: whenever
\* the aggregated total debit differs from the aggregated total credit it
\* fails with CalculationError, and every result it returns has total_debit =
\* total_credit, equal to the sums of its items' debit and credit columns.
C13_TrialBalanceNeverPassesMismatch ==
    reply.op = "trial_balance" =>
        LET ids == IF reply.args[1] = {} THEN ChartIds ELSE reply.args[1] \cap ChartIds
            debit == SumAmounts(Ledger, DebitsOf(ids) \cap UpTo(reply.args[2]))
            credit == SumAmounts(Ledger, CreditsOf(ids) \cap UpTo(reply.args[2]))
        IN  /\ (ids # {} /\ debit # credit) => reply.status # "ok"
            /\ (ids # {} /\ debit # credit /\ OneCurrency(ids, {})) =>
                  reply.status = "CalculationError"
            /\ reply.status = "ok" =>
                  /\ reply.value.total_debit = reply.value.total_credit
                  /\ reply.value.total_debit = SumColumn(reply.value.items, "debit")
                  /\ reply.value.total_credit = SumColumn(reply.value.items, "credit")
                  /\ reply.value.total_debit = debit
                  /\ reply.value.total_credit = credit

\* C13 witness: a trial balance over accounts whose credits exceed their
\* debits has just failed with CalculationError.
C13_Witness ==
    /\ reply.op = "trial_balance"
    /\ reply.status = "CalculationError"
    /\ reply.args[1] # {}
    /\ SumAmounts(Ledger, DebitsOf(reply.args[1]) \cap UpTo(reply.args[2]))
          < SumAmounts(Ledger, CreditsOf(reply.args[1]) \cap UpTo(reply.args[2]))

\* C14: over any set of committed journals built from valid two-account
\* postings, for every account_ids filter (a proper subset of the accounts the
\* postings touch included) and every as_of, TrialBalance.compute returns a
\* result instead of raising CalculationError.
C14_TrialBalanceNeverMismatches ==
    reply.op = "trial_balance" => reply.status # "CalculationError"

\* C15: AccountBalance.compute(account) returns, over all postings of all
\* stored journals, the sum of the amounts of the postings that debit the
\* account minus the sum of those that credit it (other postings contribute
\* nothing); it fails with a currency mismatch when an explicit currency
\* argument differs from the account's currency.
C15_AccountBalanceIsDebitsMinusCredits ==
    (reply.op = "account_balance" /\ reply.args[1] \in ChartIds) =>
        LET id == reply.args[1]
            ccy == reply.args[2]
            asked_other == ccy # NoCurrency /\ ccy # Account(id).currency_code
        IN  /\ asked_other <=> reply.status = "ValidationError: Currency mismatch"
            /\ reply.status = "ok" =>
                  reply.value.balance =
                      SumAmounts(Ledger, DebitsOf({id})) - SumAmounts(Ledger, CreditsOf({id}))
            /\ (~asked_other /\ OneCurrency({id}, DebitsOf({id}) \cup CreditsOf({id}))) =>
                  reply.status = "ok"

\* C15 witness: a balance has just been returned for an account that one
\* stored posting debits and another credits with a different amount, while
\* the ledger is in the account's currency.
C15_Witness ==
    /\ reply.op = "account_balance"
    /\ reply.status = "ok"
    /\ DebitsOf({reply.args[1]}) # {}
    /\ CreditsOf({reply.args[1]}) # {}
    /\ reply.value.balance # 0

\* C16: PeriodBalance.compute(account, start, end) fails when start > end;
\* otherwise opening_balance is the debit-minus-credit replay of the account's
\* postings with timestamp < start, total_debit and total_credit are the sums
\* of its debit-side and credit-side postings with start <= timestamp <= end,
\* postings after end are ignored, and closing_balance = opening_balance +
\* total_debit - total_credit.
C16_PeriodBalance ==
    reply.op = "period_balance" =>
        LET id == reply.args[1]
            s == reply.args[2]
            e == reply.args[3]
        IN  /\ s > e <=> reply.status = "ValidationError: period_start after period_end"
            /\ reply.status = "ok" =>
                  /\ reply.value.opening_balance =
                        SumAmounts(Ledger, DebitsOf({id}) \cap Before(s))
                        - SumAmounts(Ledger, CreditsOf({id}) \cap Before(s))
                  /\ reply.value.total_debit =
                        SumAmounts(Ledger, DebitsOf({id}) \cap Within(s, e))
                  /\ reply.value.total_credit =
                        SumAmounts(Ledger, CreditsOf({id}) \cap Within(s, e))
                  /\ reply.value.closing_balance =
                        reply.value.opening_balance + reply.value.total_debit
                        - reply.value.total_credit
            /\ ( /\ s <= e
                 /\ reply.args[4] = NoCurrency
                 /\ OneCurrency({id}, DebitsOf({id}) \cup CreditsOf({id})) ) =>
                  reply.status = "ok"

\* C16 witness: a period balance has just been returned for an account with a
\* posting before the period and a posting on the period's last instant.
C16_Witness ==
    /\ reply.op = "period_balance"
    /\ reply.status = "ok"
    /\ reply.value.opening_balance # 0
    /\ \E i \in DebitsOf({reply.args[1]}) \cup CreditsOf({reply.args[1]}) :
          Ledger[i].timestamp = reply.args[3]

\* C17: get_liquidity(currency) returns total, available and reserved equal to
\* the sums of total_balance, available_balance and reserved_balance over
\* exactly the cash positions whose currency is the requested one (positions
\* of other currencies contribute nothing), and fails with NotFound when no
\* position has that currency.  The sums are the float sums of the columns.
C17_LiquidityIsSumOverCurrency ==
    (reply.op = "get_liquidity" /\ reply.args[1] \in {"ZMW", "USD", "EUR"}) =>
        LET K == {k \in DOMAIN positions : positions[k].currency_code = reply.args[1]}
        IN  /\ K = {} <=> reply.status = "NotFoundError"
            /\ K # {} => reply.status = "ok"
            /\ \A k \in K : K = {k} =>
                  /\ reply.value.total_balance = positions[k].total_balance
                  /\ reply.value.available_balance = positions[k].available_balance
                  /\ reply.value.reserved_balance = positions[k].reserved_balance
            /\ \A k \in K, m \in K : (k # m /\ K = {k, m}) =>
                  /\ reply.value.total_balance =
                        FAdd(positions[k].total_balance, positions[m].total_balance)
                  /\ reply.value.available_balance =
                        FAdd(positions[k].available_balance, positions[m].available_balance)
                  /\ reply.value.reserved_balance =
                        FAdd(positions[k].reserved_balance, positions[m].reserved_balance)

\* C17 witness: liquidity has just been returned for a currency held by two
\* positions while a third position is in another currency.
C17_Witness ==
    /\ reply.op = "get_liquidity"
    /\ reply.status = "ok"
    /\ Cardinality({k \in DOMAIN positions : positions[k].currency_code = reply.args[1]}) = 2
    /\ \E k \in DOMAIN positions : positions[k].currency_code # reply.args[1]

\* C19: a get_liquidity read that runs concurrently with reserve_funds,
\* release_reservation or confirm_reservation reflects a consistent snapshot:
\* when every position satisfies total = available + reserved between
\* operations, the liquidity result satisfies total_balance =
\* available_balance + reserved_balance.
C19_LiquiditySnapshotBalanced ==
    ( /\ reply.op = "get_liquidity"
      /\ reply.status = "ok"
      /\ \A k \in DOMAIN positions :
            positions[k].total_balance =
                FAdd(positions[k].available_balance, positions[k].reserved_balance) )
    => reply.value.total_balance =
           FAdd(reply.value.available_balance, reply.value.reserved_balance)

QueryOps == {"get_liquidity", "get_total_liquidity", "check_sufficient_funds",
             "account_balance", "period_balance", "trial_balance"}
\* A result without the time at which it was produced.
Undated(r) ==
    IF r.op = "trial_balance" /\ r.status = "ok"
    THEN [r EXCEPT !.value.generated_at = NoTime]
    ELSE r

LoanTable == {<<"PENDING", "DISBURSED">>, <<"DISBURSED", "ACTIVE">>,
              <<"ACTIVE", "CLOSED">>, <<"ACTIVE", "DEFAULTED">>}

\* C20: a loan is created PENDING, and update_loan_status succeeds only for
\* PENDING to DISBURSED, DISBURSED to ACTIVE, ACTIVE to CLOSED and ACTIVE to
\* DEFAULTED; every other request (ACTIVE on a PENDING loan, any
\* self-transition, any transition from CLOSED or DEFAULTED) fails as an
\* invalid transition and leaves the status unchanged, so CLOSED and
\* DEFAULTED are never left.
C20_LoanStateMachine ==
    [][ /\ (last'.op = "create_loan" /\ last'.result = "ok") =>
              /\ Len(loans') = Len(loans) + 1
              /\ loans'[Len(loans')].status = "PENDING"
        /\ (last'.op = "update_loan_status" /\ last'.loan_id \in DOMAIN loans) =>
              LET id == last'.loan_id
                  from == loans[id].status
                  to == last'.status
              IN  /\ last'.result = "ok" <=> <<from, to>> \in LoanTable
                  /\ last'.result = "ok" => loans' = [loans EXCEPT ![id].status = to]
                  /\ last'.result # "ok" =>
                        /\ last'.result = "ValidationError: Invalid status transition"
                        /\ loans' = loans
        /\ \A i \in DOMAIN loans :
              /\ i \in DOMAIN loans'
              /\ loans[i].status \in {"CLOSED", "DEFAULTED"} => loans'[i] = loans[i]
              /\ loans'[i].status # loans[i].status =>
                    <<loans[i].status, loans'[i].status>> \in LoanTable
      ]_vars

\* C20 witness: a transition has just been refused on a loan that is CLOSED
\* or DEFAULTED.
C20_Witness ==
    /\ last.op = "update_loan_status"
    /\ last.result = "ValidationError: Invalid status transition"
    /\ last.loan_id \in DOMAIN loans
    /\ loans[last.loan_id].status \in {"CLOSED", "DEFAULTED"}

C22_DisbursementLifecycle ==
    [][ /\ (last'.op = "execute_disbursement" /\ last'.id \in DOMAIN disbursements) =>
              LET id == last'.id
              IN  /\ last'.result = "ok" <=> disbursements[id].status = "PENDING"
                  /\ last'.result = "ok" =>
                        disbursements' = [disbursements EXCEPT ![id].status = "COMPLETED"]
                  /\ last'.result # "ok" => disbursements' = disbursements
        /\ (last'.op = "fail_disbursement" /\ last'.result = "ok") =>
              LET id == last'.id
              IN  /\ disbursements'[id].status = "FAILED"
                  /\ disbursements'[id].notes[Len(disbursements'[id].notes)] = "Failed: timeout"
        /\ \A id \in DOMAIN disbursements :
              disbursements[id].status \in {"COMPLETED", "FAILED"} =>
                  disbursements'[id].status = disbursements[id].status
      ]_vars

\* The status changes a repayment may go through
RepaymentTable == {<<"PENDING", "APPLIED">>, <<"APPLIED", "REVERSED">>}

\* C23: apply_repayment succeeds only from PENDING and moves to APPLIED;
\* reverse_repayment succeeds only from APPLIED, moves to REVERSED and
\* records the reason; any other call fails and leaves the repayment
\* unchanged, so a status only ever changes from PENDING to APPLIED and from
\* APPLIED to REVERSED, and a repayment is applied at most once.
C23_RepaymentLifecycle ==
    [][ /\ (last'.op = "apply_repayment" /\ last'.id \in DOMAIN repayments) =>
              LET id == last'.id
              IN  /\ last'.result = "ok" <=> repayments[id].status = "PENDING"
                  /\ last'.result = "ok" => repayments'[id].status = "APPLIED"
                  /\ last'.result # "ok" => repayments' = repayments
        /\ (last'.op = "reverse_repayment" /\ last'.id \in DOMAIN repayments) =>
              LET id == last'.id
              IN  /\ last'.result = "ok" <=> repayments[id].status = "APPLIED"
                  /\ last'.result = "ok" =>
                        repayments' =
                            [repayments EXCEPT
                                ![id].status = "REVERSED",
                                ![id].notes = OrEmpty(@) \o <<"Reversed: timeout">>]
                  /\ last'.result # "ok" => repayments' = repayments
        /\ (last'.op \in {"apply_repayment", "reverse_repayment"}
               /\ last'.id \notin DOMAIN repayments) =>
              /\ last'.result = "NotFoundError"
              /\ repayments' = repayments
        /\ \A id \in DOMAIN repayments :
              /\ id \in DOMAIN repayments'
              /\ repayments'[id].status # repayments[id].status =>
                    /\ <<repayments[id].status, repayments'[id].status>> \in RepaymentTable
                    /\ last' = Outcome(IF repayments[id].status = "PENDING"
                                       THEN "apply_repayment" ELSE "reverse_repayment",
                                       id, "ok")
      ]_vars

\* C23 witness: a second apply_repayment has just been refused on a
\* repayment that is APPLIED, another one being REVERSED already.
C23_Witness ==
    /\ last.op = "apply_repayment"
    /\ last.result = "ValidationError: Repayment already APPLIED"
    /\ \E id \in DOMAIN repayments : repayments[id].status = "REVERSED"

\* C24: for every repayment that is APPLIED or REVERSED,
\* interest_applied + principal_applied = payment_amount with both parts
\* non-negative, and neither part nor payment_amount changes once the
\* repayment has been applied.
C24_AllocationContract ==
    /\ [](\A id \in DOMAIN repayments :
             repayments[id].status \in {"APPLIED", "REVERSED"} =>
                 /\ FltAdd(repayments[id].interest_applied, repayments[id].principal_applied)
                        = repayments[id].payment_amount
                 /\ repayments[id].interest_applied.s = 1
                 /\ repayments[id].principal_applied.s = 1)
    /\ [][\A id \in DOMAIN repayments :
             repayments[id].status \in {"APPLIED", "REVERSED"} =>
                 /\ repayments'[id].interest_applied = repayments[id].interest_applied
                 /\ repayments'[id].principal_applied = repayments[id].principal_applied
                 /\ repayments'[id].payment_amount = repayments[id].payment_amount]_vars

\* The provider each starting call belongs to
StartOps ==
    [process_payment |-> "INBOUND", execute_payment |-> "OUTBOUND",
     execute_settlement |-> "SETTLEMENT"]

C26_CancelOnlyBeforeCompletion ==
    [][ /\ last'.op = "cancel_payment" =>
              IF PaymentExists("OUTBOUND", last'.id)
              THEN LET id == last'.id
                   IN  /\ last'.result = "ok" <=>
                             payments[id].status \in {"PENDING", "PROCESSING"}
                       /\ payments[id].status \in {"COMPLETED", "FAILED", "CANCELLED"} =>
                             /\ last'.result # "ok"
                             /\ payments' = payments
                       /\ last'.result = "ok" =>
                             payments' = [payments EXCEPT ![id].status = "CANCELLED"]
                       /\ last'.result # "ok" => payments' = payments
              ELSE /\ last'.result = "NotFoundError"
                   /\ payments' = payments
        /\ \A id \in DOMAIN payments :
              (payments'[id].status = "CANCELLED" /\ payments[id].status # "CANCELLED") =>
                  last' = Outcome("cancel_payment", id, "ok")
      ]_vars

\* C26 witness: cancel_payment has just been refused on an outbound payment
\* that is COMPLETED.
C26_Witness ==
    /\ last.op = "cancel_payment"
    /\ last.result = "ValidationError: Cannot cancel payment with status COMPLETED"
    /\ last.id \in DOMAIN payments
    /\ payments[last.id].payment_type = "OUTBOUND"
    /\ payments[last.id].status = "COMPLETED"

\* The provider each failing call belongs to
FailOps ==
    [n \in {"inbound.fail_payment", "outbound.fail_payment", "fail_settlement"} |->
        IF n = "inbound.fail_payment" THEN "INBOUND"
        ELSE IF n = "outbound.fail_payment" THEN "OUTBOUND" ELSE "SETTLEMENT"]

\* The failing call of its own provider succeeds on payment id
FailSucceeds(id) ==
    \E reason \in Reasons :
        /\ \/ inbound_fail_payment(id, reason)
           \/ outbound_fail_payment(id, reason)
           \/ fail_settlement(id, reason)
        /\ last'.result = "ok"
        /\ payments'[id].status = "FAILED"

C28_SettlementGuards ==
    /\ [](\A id \in DOMAIN payments :
             payments[id].payment_type = "SETTLEMENT" =>
                 payments[id].source_account_id # payments[id].destination_account_id)
    /\ [][ /\ \A data \in SettlementInputs :
                 (/\ last'.op = "create_settlement"
                  /\ data.missing = {}
                  /\ IsUuid(data.source_account_id)
                  /\ IsUuid(data.destination_account_id)
                  /\ Uuid(data.source_account_id) = Uuid(data.destination_account_id)
                  /\ create_settlement(data)) =>
                     /\ last'.result =
                           "ValidationError: Source and destination accounts cannot be the same"
                     /\ payments' = payments
           /\ (last'.op = "create_settlement" /\ last'.result # "ok") => payments' = payments
           /\ last'.op = "reverse_settlement" =>
                 IF PaymentExists("SETTLEMENT", last'.id)
                 THEN LET id == last'.id
                      IN  /\ last'.result = "ok" <=> payments[id].status = "COMPLETED"
                          /\ last'.result = "ok" =>
                                payments' =
                                    [payments EXCEPT
                                        ![id].status = "REVERSED",
                                        ![id].notes = OrEmpty(@) \o <<"Reversed: timeout">>]
                          /\ last'.result # "ok" => payments' = payments
                 ELSE /\ last'.result = "NotFoundError"
                      /\ payments' = payments
           /\ \A id \in DOMAIN payments :
                 (payments'[id].status = "REVERSED" /\ payments[id].status # "REVERSED") =>
                     last' = Outcome("reverse_settlement", id, "ok")
         ]_vars

\* C28 witness: a settlement has been reversed, and create_settlement has
\* just been refused for a source equal to the destination.
C28_Witness ==
    /\ last.op = "create_settlement"
    /\ last.result = "ValidationError: Source and destination accounts cannot be the same"
    /\ \E id \in DOMAIN payments :
          /\ payments[id].payment_type = "SETTLEMENT"
          /\ payments[id].status = "REVERSED"
          /\ payments[id].notes = <<"", "Reversed: timeout">>

\* C29: every constructed Posting has a debit account different from its
\* credit account and an amount greater than zero; a construction with equal
\* accounts, or with an amount of zero or below, fails and leaves no object.
C29_PostingInvariants ==
    /\ (reply.op \in {"Posting", "from_schema"} =>
             IF reply.status = "ok"
             THEN /\ reply.value.debit_account_id # reply.value.credit_account_id
                  /\ reply.value.money.amount > 0
                  /\ reply.value.debit_account_id = reply.args[1]
                  /\ reply.value.credit_account_id = reply.args[2]
                  /\ reply.value.money.amount = reply.args[3]
             ELSE /\ reply.status = "DomainError"
                  /\ reply.value = <<>>)
    /\ (reply.op \in {"Posting", "from_schema"} =>
             ((reply.args[1] = reply.args[2] \/ reply.args[3] <= 0) =>
                  reply.status = "DomainError"))

\* C29 witness: the construction of a posting of amount zero between two
\* different accounts has failed.
C29_Witness ==
    /\ reply.op = "Posting"
    /\ reply.status = "DomainError"
    /\ reply.args[1] # reply.args[2]
    /\ reply.args[3] = 0
    /\ reply.args[4] = "USD"

\* A sum of rounded amounts: signed whole numbers of hundredths
SignedAdd(a, b) ==
    IF a.s = b.s THEN [s |-> a.s, c |-> NAdd(a.c, b.c)]
    ELSE IF NLt(a.c, b.c) THEN [s |-> b.s, c |-> NSub(b.c, a.c)]
    ELSE [s |-> IF a.c = b.c THEN 1 ELSE a.s, c |-> NSub(a.c, b.c)]

RECURSIVE PrincipalDue(_)
PrincipalDue(rows) ==
    IF rows = <<>> THEN [s |-> 1, c |-> <<>>]
    ELSE SignedAdd(rows[1].principal_due, PrincipalDue(Tail(rows)))

\* C30: the principal_due of the installments that generate_schedule stores
\* for a loan of principal P and term n add up to P within n hundredths.
C30_AmortizationReconciles ==
    [][ (last'.op = "generate_schedule" /\ last'.result = "ok") =>
           LET loan == loans[last'.id]
               rows == SubSeq(schedule', Len(schedule) + 1, Len(schedule'))
               drift == SignedAdd(PrincipalDue(rows),
                                  [s |-> -1, c |-> Hundredths(loan.principal_amount)])
           IN  /\ Len(rows) = loan.term_months
               /\ ~NLt(Nat2(loan.term_months), drift.c)
      ]_vars

\* the installments stored for loans without interest
ZeroRateRows ==
    {i \in DOMAIN schedule : loans[schedule[i].loan_id].interest_rate = FltZero}

\* |a - b| for two natural numbers
NDist(a, b) == IF NLt(a, b) THEN NSub(b, a) ELSE NSub(a, b)

\* C31 as stated: for a zero interest rate every installment has
\* interest_due = 0 and total_due = principal_due = P/n, so that n times the
\* stored amount is the principal.
C31_ZeroRateEqualShares ==
    \A i \in ZeroRateRows :
        LET row == schedule[i]
            loan == loans[row.loan_id]
        IN  /\ row.interest_due.c = <<>>
            /\ row.total_due = row.principal_due
            /\ NMul(row.total_due.c, Nat2(loan.term_months))
                  = Hundredths(loan.principal_amount)

\* C31, amended: for a zero interest rate every installment has
\* interest_due = 0 and total_due = principal_due = P/n rounded to two
\* decimals: a positive whole number of hundredths c with |n * c - P| <= n/2.
C31_ZeroRateRoundedShares ==
    \A i \in ZeroRateRows :
        LET row == schedule[i]
            loan == loans[row.loan_id]
            n == Nat2(loan.term_months)
        IN  /\ row.interest_due.c = <<>>
            /\ row.total_due = row.principal_due
            /\ row.total_due.s = 1
            /\ ~NLt(n, NMul(Nat2(2), NDist(NMul(row.total_due.c, n),
                                           Hundredths(loan.principal_amount))))

\* 1.00 lent without interest over three months: three installments of 0.33
C31_Witness ==
    /\ loans[1].interest_rate = FltZero
    /\ loans[1].term_months = 3
    /\ Hundredths(loans[1].principal_amount) = Nat2(100)
    /\ Len(schedule) = 3
    /\ \A i \in 1..3 : schedule[i].total_due = [s |-> 1, c |-> Nat2(33)]

\* the stored installments of a loan
RowsOf(rows, loan_id) == {i \in DOMAIN rows : rows[i].loan_id = loan_id}

\* C32: after a generate_schedule call for a loan, the loan's stored
\* installments carry each installment_number 1..term_months exactly once, are
\* all PENDING, and installment k is due k-1 calendar months after the start
\* date of the schedule.
C32_ScheduleGeneratedOnce ==
    [][ \A data \in ScheduleInputs :
          (last'.op = "generate_schedule" /\ last'.result = "ok"
             /\ generate_schedule(data)) =>
            LET mine == RowsOf(schedule', data.loan_id)
            IN  /\ \A k \in 1..loans[data.loan_id].term_months :
                      Cardinality({i \in mine : schedule'[i].installment_number = k}) = 1
                /\ \A i \in mine :
                      /\ schedule'[i].installment_number
                            \in 1..loans[data.loan_id].term_months
                      /\ schedule'[i].status = "PENDING"
                      /\ schedule'[i].due_date
                            = PlusMonths(data.start_date,
                                         schedule'[i].installment_number - 1)
      ]_vars

UpdateOps == {"update_account", "update_chart_account"}

\* C33: each successful update_account or update_chart_account, whether the
\* callers run one after another or concurrently, raises the version of the
\* row it updates by exactly 1, and a failed update changes no version.
C33_VersionCountsUpdates ==
    [][ /\ \A p \in Procs :
             ChartUpdateCommit(p) =>
                accounts'[sess[p].id].version = accounts[sess[p].id].version + 1
        /\ \A p \in Procs :
             AccountUpdateCommit(p) =>
                ledger_accounts'[sess[p].id].version
                   = ledger_accounts[sess[p].id].version + 1
        /\ (last'.op \in UpdateOps /\ last'.result # "ok") =>
             /\ \A i \in DOMAIN accounts : accounts'[i].version = accounts[i].version
             /\ \A i \in DOMAIN ledger_accounts :
                   ledger_accounts'[i].version = ledger_accounts[i].version
      ]_vars

\* the chart accounts reached from account i by at most n parent links
RECURSIVE AncestorsOf(_, _)
AncestorsOf(i, n) ==
    LET parent == accounts[i].parent_account_id
    IN  IF n = 0 \/ parent \notin DOMAIN accounts THEN {}
        ELSE {parent} \cup AncestorsOf(parent, n - 1)

UnknownParent(parent_account_id) ==
    parent_account_id # NoParent /\ ~ChartAccountExists(parent_account_id)

\* C34: creating or re-parenting a chart account with a parent that does not
\* exist fails validation and stores nothing, and in every state every
\* parent_account_id that is set names a stored chart account and no chart
\* account is its own ancestor.
C34_ChartIsATree ==
    /\ [][ /\ \A account_in \in ChartCreates :
                 (UnknownParent(account_in.parent_account_id)
                    /\ create_chart_account(account_in)) =>
                   (last'.result # "ok" /\ accounts' = accounts)
            /\ \A id \in DOMAIN accounts, updates \in ChartUpdates :
                 ("parent_account_id" \in updates.keys
                    /\ UnknownParent(updates.parent_account_id)
                    /\ update_chart_account(id, updates)) =>
                   (last'.result = "ValidationError: parent" /\ accounts' = accounts)
          ]_vars
    /\ [](\A i \in DOMAIN accounts :
             /\ accounts[i].parent_account_id \in DOMAIN accounts \cup {NoParent}
             /\ i \notin AncestorsOf(i, Len(accounts)))

\* the amounts of the ACTIVE reservations of position k among rows, added in
\* insertion order with the program's float addition
RECURSIVE ActiveSum(_, _)
ActiveSum(rows, k) ==
    IF rows = <<>> THEN Zero
    ELSE LET r == rows[Len(rows)]
             rest == ActiveSum(SubSeq(rows, 1, Len(rows) - 1), k)
         IN  IF r.key = k /\ r.status = "ACTIVE" THEN FAdd(rest, r.amount) ELSE rest

\* C35: in every committed state the reserved_balance of a position that
\* started with reserved_balance = 0 is the sum of the amounts of its ACTIVE
\* reservations.
C35_ReservedIsSumOfActive ==
    \A k \in DOMAIN positions :
        positions[k].reserved_balance = ActiveSum(reservations, k)

\* C36: a funding transfer never overdraws a position: under create_transfer,
\* complete_transfer and reserve_funds the available and the total balance of
\* every position stay >= 0.
C36_TransfersNeverOverdraw ==
    \A k \in DOMAIN positions :
        /\ ~Negative(positions[k].available_balance)
        /\ ~Negative(positions[k].total_balance)

\* C37: the amount of a transfer has moved from its source to its destination
\* exactly when its status is COMPLETED, and it moves once.
C37_MovedIffCompleted ==
    \A i \in DOMAIN transfers :
        /\ transfers[i].moved <= 1
        /\ (transfers[i].moved = 1) <=> (transfers[i].status = "COMPLETED")

TerminalStatuses == {"COMPLETED", "FAILED", "CANCELLED"}

\* C38: a payment that is COMPLETED, FAILED or CANCELLED keeps its status in
\* every step; the one exit is a COMPLETED settlement becoming REVERSED.
C38_TerminalStatusesAbsorbing ==
    [][\A i \in DOMAIN payments :
          payments[i].status \in TerminalStatuses =>
              \/ payments'[i].status = payments[i].status
              \/ /\ payments[i].payment_type = "SETTLEMENT"
                 /\ payments[i].status = "COMPLETED"
                 /\ payments'[i].status = "REVERSED"]_vars

\* C39: a payment or settlement that is COMPLETED has been PROCESSING before:
\* its processed_at is set.
C39_CompletedWasProcessed ==
    \A i \in DOMAIN payments :
        payments[i].status = "COMPLETED" => payments[i].processed_at # NoTime

\* the accounts the postings of the stored journals name
Touched(ps) ==
    {ps[i].debit_account_id : i \in DOMAIN ps} \cup {ps[i].credit_account_id : i \in DOMAIN ps}

\* every posting is in the currency of the first
SameCurrency(ps) == \A i \in DOMAIN ps : ps[i].money.currency = ps[1].money.currency

\* every account named by a posting is kept in the posting's currency
KeptInCurrency(ps) ==
    \A i \in DOMAIN ps :
        /\ Account(ps[i].debit_account_id).currency_code = ps[i].money.currency
        /\ Account(ps[i].credit_account_id).currency_code = ps[i].money.currency

Computed(id) == AccountBalance_compute(id, NoCurrency)

RECURSIVE BalanceSum(_)
BalanceSum(ids) ==
    IF ids = {} THEN 0
    ELSE LET id == CHOOSE x \in ids : TRUE
         IN  Computed(id).value.balance + BalanceSum(ids \ {id})

\* the balances of the touched accounts are all computed and add up to zero
Conserved ==
    /\ \A id \in Touched(Postings(journals)) : Computed(id).status = "ok"
    /\ BalanceSum(Touched(Postings(journals))) = 0

\* what the postings ps give to account id: +amount as debit account,
\* -amount as credit account
RECURSIVE Share(_, _)
Share(ps, id) ==
    IF ps = <<>> THEN 0
    ELSE Share(Tail(ps), id)
         + (IF Head(ps).debit_account_id = id THEN Head(ps).money.amount ELSE 0)
         - (IF Head(ps).credit_account_id = id THEN Head(ps).money.amount ELSE 0)

\* a journal has been added, and it moves every computed balance by the
\* account's share of the journal's postings
JournalAdded == Len(journals') = Len(journals) + 1
BalancesMoved ==
    \A id \in AccountIds :
        Computed(id).status = "ok" =>
            /\ Computed(id)'.status = "ok"
            /\ Computed(id)'.value.balance =
                   Computed(id).value.balance + Share(journals'[Len(journals')].postings, id)

\* C40 as stated: whenever the stored postings are all in one currency, the
\* computed balances of the touched accounts add up to zero, and a journal
\* added to such a ledger moves each balance by the account's share.
C40_ConservationInOneCurrency ==
    /\ [](SameCurrency(Postings(journals)) => Conserved)
    /\ [][JournalAdded /\ SameCurrency(Postings(journals))' => BalancesMoved]_vars

\* C40, amended: the same when, in addition, every account a posting names is
\* kept in the posting's currency.
C40_ConservationInAccountCurrency ==
    /\ [](SameCurrency(Postings(journals)) /\ KeptInCurrency(Postings(journals)) => Conserved)
    /\ [][JournalAdded /\ SameCurrency(Postings(journals))' /\ KeptInCurrency(Postings(journals))'
            => BalancesMoved]_vars

\* three journals are stored, two accounts carry a balance other than zero
\* and the balance of one has just been computed
C40_Witness ==
    /\ Len(journals) = 3
    /\ SameCurrency(Postings(journals)) /\ KeptInCurrency(Postings(journals))
    /\ Cardinality({id \in AccountIds : Computed(id).value.balance # 0}) >= 2
    /\ reply.op = "account_balance" /\ reply.status = "ok" /\ reply.value.balance # 0

Spec == SpecTreasury
====
